---- MODULE Spec2Model ----
(***************************************************************************)
(* A model of the orchestration core of TradingAgentsDeepseek:             *)
(*   - the workflow orchestrator (core/workflow.py) driving one symbol     *)
(*     through Analysis -> Debate -> Trading [-> Risk -> FundManager],     *)
(*     called directly or fanned out by batch_portfolio_analyzer.py;       *)
(*   - the process-wide state manager (core/state_manager.py);             *)
(*   - the tool-call loop of an agent (core/agent_base.py) with the tool   *)
(*     registry's execute_tool (core/tool_manager.py).                     *)
(* Spec is the workflow/state-manager machine, LoopSpec the tool-call      *)
(* loop of one agent call, DebateSpec and RiskSpec the two debate          *)
(* coordinators, ChainSpec and RecorderSpec the call chain log and its     *)
(* recorder, PublishSpec the state manager under parallel analysts,        *)
(* BatchSpec the batch portfolio analyzer, EmitSpec the emitter tools and  *)
(* FanoutSpec the analyst fan-out over a list of analysts.                 *)
(***************************************************************************)
EXTENDS Integers, Sequences, FiniteSets, TLC

VARIABLES
    current_session,   \* StateManager.current_session (the global singleton's)
    session_history,   \* StateManager.session_history
    session_counter,   \* identity of the TradingSession objects created so far
    caller,            \* who calls execute_trading_workflow: a direct caller or the batch analyzer
    wf,                \* per symbol: the frame of its execute_trading_workflow call
    loop,              \* the frame of one process_with_tools_return_result call
    agent,             \* the agent call around that loop and what it published
    rd,                \* per symbol: the frame of its conduct_research_debate call
    research_debate_state,  \* per symbol: the DebateState its coordinator was handed
    risk,              \* the frame of one conduct_risk_debate call
    trading_logger,    \* the global StructuredLogger's call counter and ticker
    llm_chains,        \* the call chains log_agent_llm_chain has written
    today,             \* the date datetime.now() gives
    emit,              \* per thread: the frame of its log_agent_llm_chain call
    pub,               \* per thread: the frame of its state manager call
    batch,             \* the frame of one analyze_portfolio call
    conv,              \* one agent's ConversationManager and its process() call
    emission,          \* one agent's emitter call and the artifact built from it
    fan                \* the frame of one analyst fan-out over a list of analysts

wfVars == <<current_session, session_history, session_counter, caller, wf>>
loopVars == <<loop, agent>>
debateVars == <<rd, research_debate_state>>
riskVars == <<risk>>
loggerVars == <<trading_logger, llm_chains, today, emit>>
publishVars == <<pub>>
batchVars == <<batch>>
recorderVars == <<conv>>
emitterVars == <<emission>>
fanoutVars == <<fan>>
vars == <<current_session, session_history, session_counter, caller, wf, loop, agent,
          rd, research_debate_state, risk, trading_logger, llm_chains, today, emit, pub,
          batch, conv, emission, fan>>

----------------------------------------------------------------------------
(* Inputs *)

\* the symbols a caller analyses
Symbols == {"AAPL", "MSFT"}

Nil == "nil"

\* the threads that run agents at once: the workers of one analyst pool
Threads == {"worker1", "worker2"}

\* keys of WorkflowOrchestrator.ANALYST_CONFIGS
AnalystTypes == {"fundamental", "technical", "sentiment", "news"}

\* selected_analysts defaults to all four when None or empty
DefaultAnalysts == {"fundamental", "technical", "sentiment", "news"}

\* analyst selections a direct caller passes ({} stands for None or [])
DirectSelections == {{}, {"technical"}, {"technical", "news"}, {"bogus"}}

\* analyst selections the batch analyzer is run with
BatchSelections == {{"technical"}, {"technical", "news"}}

\* WorkflowStage members used as stage tags
ANALYSIS == "ANALYSIS"
DEBATE == "DEBATE"
TRADING == "TRADING"
RISK_MANAGEMENT == "RISK_MANAGEMENT"
FINAL_DECISION == "FINAL_DECISION"
INITIALIZATION == "INITIALIZATION"
COMPLETION == "COMPLETION"

\* the stage list execute_trading_workflow builds for a mode
workflow_stages(quick_mode) ==
    IF quick_mode
    THEN <<ANALYSIS, DEBATE, TRADING>>
    ELSE <<ANALYSIS, DEBATE, TRADING, RISK_MANAGEMENT, FINAL_DECISION>>

----------------------------------------------------------------------------
(* The state manager *)

NoSession == [id |-> 0]

\* TradingSession(session_id, symbol, start_time): every slot None
TradingSession(id, symbol) ==
    [id |-> id,
     symbol |-> symbol,
     reports |-> [a \in AnalystTypes |-> Nil],
     written |-> [a \in AnalystTypes |-> 0],   \* how often each slot was assigned
     research_debate |-> Nil,
     risk_debate |-> Nil,
     trader_decision |-> Nil,
     risk_management_decision |-> Nil,
     final_recommendation |-> Nil]

\* StateManager.start_session: the new session replaces current_session
start_session(id, symbol) == TradingSession(id, symbol)

\* StateManager.end_session, the history it leaves
end_session_history(cur, hist) ==
    IF cur # NoSession THEN Append(hist, cur) ELSE hist

\* an end_session that leaves the session active
end_session_keeps(cur) == cur

\* StateManager.end_session, the current session it leaves
end_session_current(cur) == NoSession

\* StateManager.add_analysis_report: a no-op without a session
add_analysis_report(cur, role, report) ==
    IF cur = NoSession THEN cur
    ELSE [cur EXCEPT !.reports[role] = report, !.written[role] = @ + 1]

\* StateManager.start_research_debate: attaches the state when a session is active
start_research_debate(cur, debate) ==
    IF cur = NoSession THEN cur ELSE [cur EXCEPT !.research_debate = debate]

\* StateManager.set_trading_decision
set_trading_decision(cur, decision) ==
    IF cur = NoSession THEN cur ELSE [cur EXCEPT !.trader_decision = decision]

\* StateManager.set_risk_management_decision
set_risk_management_decision(cur, decision) ==
    IF cur = NoSession THEN cur ELSE [cur EXCEPT !.risk_management_decision = decision]

----------------------------------------------------------------------------
(* The workflow orchestrator *)

NoResult == [success |-> FALSE, stage |-> Nil]

\* the analysis stage's result before the stage has returned
NoStageResult == [returned |-> FALSE]

\* the frame of a call that has not been made
IdleFrame ==
    [pc |-> "idle", quick |-> FALSE, passed |-> {}, selected |-> {}, session_id |-> 0,
     idx |-> 1, tasks |-> {}, completed |-> {}, reports |-> {}, errors |-> {},
     started |-> <<>>, succeeded |-> {}, failed |-> Nil, raised |-> FALSE,
     risk_agent_failed |-> FALSE, analyst_ok |-> {}, analysis |-> NoStageResult,
     result |-> NoResult]

\* the stage the for loop of execute_trading_workflow is about to execute
NextStage(f) ==
    IF f.pc = "loop" /\ f.idx <= Len(workflow_stages(f.quick))
    THEN workflow_stages(f.quick)[f.idx]
    ELSE Nil

\* _create_failure_result
create_failure_result(session_id, stage) ==
    [success |-> FALSE, session_id |-> session_id, stage |-> stage, error |-> TRUE,
     mode |-> Nil, risk_management |-> FALSE, fund_manager_result |-> FALSE,
     final_decision |-> FALSE, trading_decision |-> FALSE]

\* _handle_workflow_exception
handle_workflow_exception(session_id) ==
    [success |-> FALSE, session_id |-> session_id, stage |-> INITIALIZATION, error |-> TRUE,
     mode |-> Nil, risk_management |-> FALSE, fund_manager_result |-> FALSE,
     final_decision |-> FALSE, trading_decision |-> FALSE]

\* a success result that fills the full-mode fields in either mode
create_success_result_full(session_id, quick_mode) ==
    [success |-> TRUE, session_id |-> session_id, stage |-> COMPLETION, error |-> FALSE,
     mode |-> IF quick_mode THEN "quick" ELSE "full",
     risk_management |-> TRUE, fund_manager_result |-> TRUE,
     final_decision |-> TRUE, trading_decision |-> TRUE]

\* _create_success_result: each field is TRUE when the constructor is given it;
\* the quick branch passes neither risk_management nor fund_manager_result nor
\* final_decision, which keep their default None
create_success_result(session_id, quick_mode) ==
    [success |-> TRUE, session_id |-> session_id, stage |-> COMPLETION, error |-> FALSE,
     mode |-> IF quick_mode THEN "quick" ELSE "full",
     risk_management |-> ~quick_mode, fund_manager_result |-> ~quick_mode,
     final_decision |-> ~quick_mode, trading_decision |-> TRUE]

\* a stage returned success: results[stage] = stage_result, next iteration
StageSucceeded(f, stage) ==
    [f EXCEPT !.succeeded = @ \cup {stage}, !.idx = @ + 1, !.pc = "loop"]

\* a loop that records the failure of a stage and goes on to the next stage
StageFailedContinues(f, stage) ==
    [f EXCEPT !.failed = stage, !.idx = @ + 1, !.pc = "loop"]

\* a stage returned success=False: return _create_failure_result(...)
StageFailed(f, stage) ==
    [f EXCEPT !.failed = stage, !.pc = "done",
              !.result = create_failure_result(f.session_id, stage)]

\* a stage raised: except Exception -> _handle_workflow_exception
StageRaised(f, stage) ==
    [f EXCEPT !.failed = stage, !.raised = TRUE, !.pc = "done",
              !.result = handle_workflow_exception(f.session_id)]

\* the finally clause of execute_trading_workflow: state_manager.end_session()
Finally(cur) ==
    /\ current_session' = end_session_current(cur)
    /\ session_history' = end_session_history(cur, session_history)

Running(s) == wf[s].pc \notin {"idle", "done"}

\* execute_trading_workflow up to the try: _initialize_workflow starts the session
StartWorkflow(s) ==
    /\ wf[s].pc = "idle"
    /\ caller.kind = "direct" => \A t \in Symbols : ~Running(t)
    /\ \E quick_mode \in BOOLEAN, sel \in DirectSelections \cup BatchSelections :
        /\ caller.kind = "batch" => quick_mode /\ sel = caller.selected
        /\ caller.kind = "direct" => sel \in DirectSelections
        /\ session_counter' = session_counter + 1
        /\ current_session' = start_session(session_counter + 1, s)
        /\ wf' = [wf EXCEPT ![s] =
                    [IdleFrame EXCEPT !.pc = "loop", !.quick = quick_mode,
                        !.passed = sel,
                        !.selected = IF sel = {} THEN DefaultAnalysts ELSE sel,
                        !.session_id = session_counter + 1]]
    /\ UNCHANGED <<session_history, caller, loopVars, debateVars, riskVars, loggerVars,
                   publishVars, batchVars, recorderVars, emitterVars, fanoutVars>>

\* _run_analyst_team_parallel's result when _prepare_analyst_tasks returned no task
no_analysts_selected ==
    [returned |-> TRUE, success |-> FALSE, reports |-> {}, errors |-> {}]

\* _run_analyst_team_parallel up to the fan-out: _prepare_analyst_tasks
PrepareAnalystTasks(s) ==
    /\ NextStage(wf[s]) = ANALYSIS
    /\ LET f == [wf[s] EXCEPT !.started = Append(@, ANALYSIS),
                              !.tasks = wf[s].selected \cap AnalystTypes]
       IN IF f.tasks = {}
          THEN /\ wf' = [wf EXCEPT ![s] =
                           StageFailed([f EXCEPT !.analysis = no_analysts_selected],
                                       ANALYSIS)]
               /\ Finally(current_session)
          ELSE /\ wf' = [wf EXCEPT ![s] = [f EXCEPT !.pc = "fanout"]]
               /\ UNCHANGED <<current_session, session_history>>
    /\ UNCHANGED <<session_counter, caller, loopVars, debateVars, riskVars, loggerVars,
                   publishVars, batchVars, recorderVars, emitterVars, fanoutVars>>

\* outcomes of one analyst's process(): a report, success=False, or an exception
AnalystOutcomes == {"ok", "failed", "raised"}

\* _execute_single_analyst in a pool thread and the collection of its result by
\* _process_single_analyst_result
ExecuteSingleAnalyst(s, a) ==
    /\ wf[s].pc = "fanout"
    /\ a \in wf[s].tasks \ wf[s].completed
    /\ \E outcome \in AnalystOutcomes :
        LET fresh == current_session = NoSession
            cur == IF fresh THEN start_session(session_counter + 1, s)
                   ELSE current_session
        IN /\ session_counter' = IF fresh THEN session_counter + 1 ELSE session_counter
           /\ current_session' = IF outcome = "ok"
                                 THEN add_analysis_report(cur, a, s)
                                 ELSE cur
           /\ wf' = [wf EXCEPT ![s] =
                       [@ EXCEPT !.completed = @ \cup {a},
                                 !.analyst_ok = IF outcome = "ok" THEN @ \cup {a} ELSE @,
                                 !.reports = IF outcome = "ok" THEN @ \cup {a} ELSE @,
                                 !.errors = IF outcome = "ok" THEN @ ELSE @ \cup {a}]]
    /\ UNCHANGED <<session_history, caller, loopVars, debateVars, riskVars, loggerVars,
                   publishVars, batchVars, recorderVars, emitterVars, fanoutVars>>

\* a stage that succeeds only when every analyst delivered a report
process_analyst_results_all(analysis_reports, errors) ==
    [returned |-> TRUE, success |-> errors = {}, reports |-> analysis_reports,
     errors |-> errors]

\* _process_analyst_results: failure when no report was collected (the errors
\* are joined into its error text), else success with the reports and the errors
process_analyst_results(analysis_reports, errors) ==
    IF analysis_reports = {}
    THEN [returned |-> TRUE, success |-> FALSE, reports |-> {}, errors |-> errors]
    ELSE [returned |-> TRUE, success |-> TRUE, reports |-> analysis_reports,
          errors |-> errors]

\* the join of the fan-out and the stage's return
ProcessAnalystResults(s) ==
    /\ wf[s].pc = "fanout"
    /\ wf[s].completed = wf[s].tasks
    /\ LET stage_result == process_analyst_results(wf[s].reports, wf[s].errors)
           f == [wf[s] EXCEPT !.analysis = stage_result]
       IN IF stage_result.success
          THEN /\ wf' = [wf EXCEPT ![s] = StageSucceeded(f, ANALYSIS)]
               /\ UNCHANGED <<current_session, session_history>>
          ELSE /\ wf' = [wf EXCEPT ![s] = StageFailed(f, ANALYSIS)]
               /\ Finally(current_session)
    /\ UNCHANGED <<session_counter, caller, loopVars, debateVars, riskVars, loggerVars,
                   publishVars, batchVars, recorderVars, emitterVars, fanoutVars>>

\* outcomes of a stage executor that wraps its agent in try/except: the wrapper
\* turns an exception into a returned success=False
WrappedOutcomes == {"ok", "failed"}

\* _execute_debate_stage -> _run_research_debate -> conduct_research_debate
DebateStage(s) ==
    /\ NextStage(wf[s]) = DEBATE
    /\ \E outcome \in WrappedOutcomes :
        LET f == [wf[s] EXCEPT !.started = Append(@, DEBATE)]
            cur == start_research_debate(current_session, s)
        IN IF outcome = "ok"
           THEN /\ wf' = [wf EXCEPT ![s] = StageSucceeded(f, DEBATE)]
                /\ current_session' = cur
                /\ UNCHANGED session_history
           ELSE /\ wf' = [wf EXCEPT ![s] = StageFailed(f, DEBATE)]
                /\ Finally(cur)
    /\ UNCHANGED <<session_counter, caller, loopVars, debateVars, riskVars, loggerVars,
                   publishVars, batchVars, recorderVars, emitterVars, fanoutVars>>

\* _execute_trading_stage -> _run_trader_decision -> Trader.process
TradingStage(s) ==
    /\ NextStage(wf[s]) = TRADING
    /\ \E outcome \in WrappedOutcomes :
        LET f == [wf[s] EXCEPT !.started = Append(@, TRADING)]
        IN IF outcome = "ok"
           THEN /\ wf' = [wf EXCEPT ![s] = StageSucceeded(f, TRADING)]
                /\ current_session' = set_trading_decision(current_session, s)
                /\ UNCHANGED session_history
           ELSE /\ wf' = [wf EXCEPT ![s] = StageFailed(f, TRADING)]
                /\ Finally(current_session)
    /\ UNCHANGED <<session_counter, caller, loopVars, debateVars, riskVars, loggerVars,
                   publishVars, batchVars, recorderVars, emitterVars, fanoutVars>>

\* outcomes of RiskManager.evaluate_risk_debate: a decision; success=False after the
\* decision was stored (the emitter's failure text came back from the loop);
\* success=False with nothing stored; an exception out of the prompt building
RiskManagerOutcomes == {"ok", "failed_stored", "failed", "raised"}

\* whether evaluate_risk_debate stored a decision in the session
risk_manager_stores(rm) == rm \in {"ok", "failed_stored"}

\* conduct_risk_debate's result: success unless something raised inside its try
\* (a debate turn, the risk manager, or current_session being None at the end);
\* success=False returned by an analyst or by the risk manager is not looked at
conduct_risk_debate(debate_ok, rm, cur) ==
    debate_ok /\ rm # "raised" /\ cur # NoSession

\* _execute_risk_stage -> _run_risk_management -> conduct_risk_debate
RiskStage(s) ==
    /\ NextStage(wf[s]) = RISK_MANAGEMENT
    /\ \E analysts_ok \in BOOLEAN, debate_ok \in BOOLEAN, rm \in RiskManagerOutcomes :
        LET reached == debate_ok
            agent_failed == ~analysts_ok \/ ~debate_ok \/ rm # "ok"
            f == [wf[s] EXCEPT !.started = Append(@, RISK_MANAGEMENT),
                               !.risk_agent_failed = agent_failed]
            stored == IF reached /\ risk_manager_stores(rm)
                      THEN set_risk_management_decision(current_session, s)
                      ELSE current_session
            cur == IF conduct_risk_debate(debate_ok, rm, stored)
                   THEN [stored EXCEPT !.risk_debate = s]
                   ELSE stored
        IN IF conduct_risk_debate(debate_ok, rm, stored)
           THEN /\ wf' = [wf EXCEPT ![s] = StageSucceeded(f, RISK_MANAGEMENT)]
                /\ current_session' = cur
                /\ UNCHANGED session_history
           ELSE /\ wf' = [wf EXCEPT ![s] = StageFailed(f, RISK_MANAGEMENT)]
                /\ Finally(cur)
    /\ UNCHANGED <<session_counter, caller, loopVars, debateVars, riskVars, loggerVars,
                   publishVars, batchVars, recorderVars, emitterVars, fanoutVars>>

\* outcomes of _execute_final_stage, which has no try/except of its own:
\* FundManager.process returns success, returns success=False, or raises
\* (its prompt is built outside its try and execute_with_llm_logging re-raises)
FinalOutcomes == {"ok", "failed", "raised"}

\* _execute_final_stage -> FundManager.process
FinalStage(s) ==
    /\ NextStage(wf[s]) = FINAL_DECISION
    /\ \E outcome \in FinalOutcomes :
        LET f == [wf[s] EXCEPT !.started = Append(@, FINAL_DECISION)]
        IN CASE outcome = "ok" ->
                /\ wf' = [wf EXCEPT ![s] = StageSucceeded(f, FINAL_DECISION)]
                /\ UNCHANGED <<current_session, session_history>>
             [] outcome = "failed" ->
                /\ wf' = [wf EXCEPT ![s] = StageFailed(f, FINAL_DECISION)]
                /\ Finally(current_session)
             [] outcome = "raised" ->
                /\ wf' = [wf EXCEPT ![s] = StageRaised(f, FINAL_DECISION)]
                /\ Finally(current_session)
    /\ UNCHANGED <<session_counter, caller, loopVars, debateVars, riskVars, loggerVars,
                   publishVars, batchVars, recorderVars, emitterVars, fanoutVars>>

\* the end of the for loop: _create_success_result, which formats the decision's
\* confidence with :.2f and so raises on a confidence that is not a number
CreateSuccessResult(s) ==
    /\ wf[s].pc = "loop"
    /\ wf[s].idx > Len(workflow_stages(wf[s].quick))
    /\ \E confidence_is_number \in BOOLEAN :
        wf' = [wf EXCEPT ![s] =
                 [@ EXCEPT !.pc = "done",
                           !.raised = ~confidence_is_number,
                           !.result = IF confidence_is_number
                                      THEN create_success_result(wf[s].session_id, wf[s].quick)
                                      ELSE handle_workflow_exception(wf[s].session_id)]]
    /\ Finally(current_session)
    /\ UNCHANGED <<session_counter, caller, loopVars, debateVars, riskVars, loggerVars,
                   publishVars, batchVars, recorderVars, emitterVars, fanoutVars>>

wfInit ==
    /\ current_session = NoSession
    /\ session_history = <<>>
    /\ session_counter = 0
    /\ caller \in {[kind |-> "direct", selected |-> {}]}
                  \cup {[kind |-> "batch", selected |-> sel] : sel \in BatchSelections}
    /\ wf = [s \in Symbols |-> IdleFrame]

loopIdle ==
    /\ loop = [status |-> "idle"]
    /\ agent = [kind |-> Nil]

\* no research debate is running and no DebateState exists
debateIdle ==
    /\ rd = [s \in Symbols |-> [pc |-> "idle"]]
    /\ research_debate_state = [s \in Symbols |-> [messages |-> <<>>]]

\* no risk debate is running
riskIdle == risk = [pc |-> "idle"]

\* StructuredLogger.__init__, no call chain written, no thread in the logger
loggerIdle ==
    /\ trading_logger = [current_session_ticker |-> Nil, session_call_counter |-> 0]
    /\ llm_chains = <<>>
    /\ today = 1
    /\ emit = [t \in Threads |-> [pc |-> "idle"]]

\* a thread that asks for the state of the session while the workers run
Reader == "reader"

\* no thread is in a state manager call
publishIdle == pub = [t \in Threads \cup {Reader} |-> [pc |-> "idle"]]

batchIdle == batch = [pc |-> "idle"]

recorderIdle == conv = [pc |-> "idle"]

emitterIdle == emission = [pc |-> "idle"]
fanoutIdle == fan = [pc |-> "idle"]

Init ==
    /\ wfInit
    /\ loopIdle /\ debateIdle /\ riskIdle /\ loggerIdle /\ publishIdle
    /\ batchIdle /\ recorderIdle /\ emitterIdle /\ fanoutIdle

Next ==
    \/ \E s \in Symbols : StartWorkflow(s)
    \/ \E s \in Symbols : PrepareAnalystTasks(s)
    \/ \E s \in Symbols, a \in AnalystTypes : ExecuteSingleAnalyst(s, a)
    \/ \E s \in Symbols : ProcessAnalystResults(s)
    \/ \E s \in Symbols : DebateStage(s)
    \/ \E s \in Symbols : TradingStage(s)
    \/ \E s \in Symbols : RiskStage(s)
    \/ \E s \in Symbols : FinalStage(s)
    \/ \E s \in Symbols : CreateSuccessResult(s)

Spec == Init /\ [][Next]_vars

----------------------------------------------------------------------------
(* The tool-call loop of an agent *)

\* the largest max_iterations a caller passes
MaxIterations == 2

\* the most tool calls the LLM requests over one run of the loop
MaxToolCalls == 3

\* names of the tools in ToolManager.tool_map: the agent's emitter and a data tool
tool_map == {"emit", "get_data"}

\* target_tool_name, the emitter the agent asks for
target_tool_name == "emit"

\* the tool calls an LLM response can carry: a registered or an unregistered tool
\* name, with arguments the tool accepts or arguments it raises on (JSON that
\* does not parse is replaced by {} and the emitters raise on missing arguments)
ToolCallKinds ==
    [function : {"emit", "get_data", "no_such_tool"}, arguments : {"valid"}]
        \cup [function : {"emit", "get_data"}, arguments : {"invalid"}]

\* sequences of tool-call kinds of length at most n
RECURSIVE SeqsUpTo(_)
SeqsUpTo(n) ==
    IF n = 0 THEN {<<>>}
    ELSE LET shorter == SeqsUpTo(n - 1)
         IN shorter \cup {Append(q, k) : q \in {r \in shorter : Len(r) = n - 1},
                                         k \in ToolCallKinds}

\* the value a tool returns: the emitter's dict
structured(tool_name) == [type |-> "dict", text |-> "fields", tool |-> tool_name]

\* the text "工具执行失败: ..." built for a tool that failed
failure_text(tool_name) == [type |-> "str", text |-> "tool_failed", tool |-> tool_name]

\* str(result)
str(result) ==
    IF result.type = "str" THEN result
    ELSE [type |-> "str", text |-> "repr", tool |-> result.tool]

\* ToolManager.execute_tool: raises for a name outside tool_map; returns the
\* tool's value; returns the failure text when the tool itself raised
execute_tool(tool_name, args) ==
    IF tool_name \notin tool_map
    THEN [raised |-> TRUE, value |-> failure_text(tool_name)]
    ELSE IF args = "valid"
         THEN [raised |-> FALSE, value |-> structured(tool_name)]
         ELSE [raised |-> FALSE, value |-> failure_text(tool_name)]

None == [type |-> "None", text |-> "None", tool |-> "None"]

\* for iteration in range(max_iterations): whether the range has another value
iterations_left_inclusive(l) == l.iteration <= l.max_iterations

iterations_left(l) == l.iteration < l.max_iterations

\* the body of "for tool_call in tool_calls" that gives up on a tool exception
execute_tool_call_aborting(l, tool_call) ==
    LET r == execute_tool(tool_call.function, tool_call.arguments)
    IN IF r.raised
       THEN [l EXCEPT !.status = "raised", !.error = "ToolExecutionError",
                      !.pending = Tail(@)]
       ELSE [l EXCEPT !.pending = Tail(@),
                      !.target_tool_result =
                          IF tool_call.function = target_tool_name THEN r.value ELSE @,
                      !.messages = Append(@, [role |-> "tool",
                                              tool_call_id |-> tool_call.id,
                                              content |-> str(r.value)])]

\* a loop body that leaves a failed tool call without a tool message
execute_tool_call_unanswered(l, tool_call) ==
    LET r == execute_tool(tool_call.function, tool_call.arguments)
    IN IF r.raised \/ r.value.type = "str"
       THEN [l EXCEPT !.pending = Tail(@)]
       ELSE [l EXCEPT !.pending = Tail(@),
                      !.target_tool_result =
                          IF tool_call.function = target_tool_name THEN r.value ELSE @,
                      !.messages = Append(@, [role |-> "tool",
                                              tool_call_id |-> tool_call.id,
                                              content |-> str(r.value)])]

\* the body of "for tool_call in tool_calls": execute the tool, keep the target
\* tool's result, turn an exception into the failure text, append the tool message
execute_tool_call(l, tool_call) ==
    LET r == execute_tool(tool_call.function, tool_call.arguments)
        result_str == IF r.raised THEN failure_text(tool_call.function)
                      ELSE str(r.value)
    IN [l EXCEPT !.pending = Tail(@),
                 !.target_tool_result =
                     IF ~r.raised /\ tool_call.function = target_tool_name
                     THEN r.value ELSE @,
                 !.terminal_failed =
                     @ \/ (tool_call.function = target_tool_name
                           /\ tool_call.arguments = "invalid"),
                 !.messages = Append(@, [role |-> "tool",
                                         tool_call_id |-> tool_call.id,
                                         content |-> result_str])]

\* a loop that goes on to the next LLM call whatever the target tool returned
after_tool_calls_continue(l) ==
    [l EXCEPT !.pc = "llm", !.iteration = @ + 1]

\* after the tool calls of a response: return the target tool's result when
\* there is one, else continue with the next iteration
after_tool_calls(l) ==
    IF l.target_tool_result # None
    THEN [l EXCEPT !.status = "returned", !.retval = l.target_tool_result]
    ELSE [l EXCEPT !.pc = "llm", !.iteration = @ + 1]

\* the agents that call the loop
AgentKinds == {"analyst", "trader", "risk_manager"}

\* RiskManager stores the decision built around the loop's result before it
\* reads the result; the analysts and the trader read the result first
stores_before_reading(kind) == kind = "risk_manager"

\* process_with_tools_return_result up to the for loop: the seeded messages
StartLoop ==
    /\ loop.status = "idle"
    /\ \E kind \in AgentKinds, max_iterations \in 0..MaxIterations :
        /\ loop' = [status |-> "running", pc |-> "llm",
                    max_iterations |-> max_iterations, iteration |-> 0,
                    llm_calls |-> 0, tool_calls_seen |-> 0,
                    text_replies |-> 0, tool_replies |-> 0,
                    messages |-> <<[role |-> "system"], [role |-> "user"]>>,
                    pending |-> <<>>, target_tool_result |-> None,
                    retval |-> None, error |-> Nil,
                    terminal_at |-> 0, terminal_failed |-> FALSE]
        /\ agent' = [kind |-> kind, state |-> "calling", success |-> FALSE,
                     published |-> None]
    /\ UNCHANGED <<wfVars, debateVars, riskVars, loggerVars, publishVars, batchVars,
                   recorderVars, emitterVars, fanoutVars>>

\* one llm_client.chat_completion call and the branch on the response's type
LLMCall ==
    /\ loop.status = "running" /\ loop.pc = "llm"
    /\ iterations_left(loop)
    /\ \/ \E kinds \in SeqsUpTo(MaxToolCalls - loop.tool_calls_seen) :
            LET n == loop.llm_calls + 1
                tool_calls == [i \in 1..Len(kinds) |->
                                 [id |-> <<n, i>>, function |-> kinds[i].function,
                                  arguments |-> kinds[i].arguments]]
                has_target == \E i \in 1..Len(kinds) : kinds[i].function = target_tool_name
            IN loop' = [loop EXCEPT
                          !.llm_calls = n,
                          !.tool_replies = @ + 1,
                          !.tool_calls_seen = @ + Len(kinds),
                          !.messages = Append(@, [role |-> "assistant",
                                                  tool_calls |-> tool_calls]),
                          !.pending = tool_calls,
                          !.target_tool_result = None,
                          !.terminal_at = IF @ = 0 /\ has_target THEN n ELSE @,
                          !.pc = "tools"]
       \/ \* a plain-text response: nothing is appended
          loop' = [loop EXCEPT !.llm_calls = @ + 1, !.iteration = @ + 1,
                               !.text_replies = @ + 1]
       \/ \* chat_completion raised
          loop' = [loop EXCEPT !.llm_calls = @ + 1, !.status = "raised",
                               !.error = "LLMError"]
    /\ UNCHANGED <<agent, wfVars, debateVars, riskVars, loggerVars, publishVars,
                   batchVars, recorderVars, emitterVars, fanoutVars>>

\* one pass of "for tool_call in tool_calls"
ExecuteToolCall ==
    /\ loop.status = "running" /\ loop.pc = "tools"
    /\ loop.pending # <<>>
    /\ loop' = execute_tool_call(loop, Head(loop.pending))
    /\ UNCHANGED <<agent, wfVars, debateVars, riskVars, loggerVars, publishVars,
                   batchVars, recorderVars, emitterVars, fanoutVars>>

\* the end of "for tool_call in tool_calls"
AfterToolCalls ==
    /\ loop.status = "running" /\ loop.pc = "tools"
    /\ loop.pending = <<>>
    /\ loop' = after_tool_calls(loop)
    /\ UNCHANGED <<agent, wfVars, debateVars, riskVars, loggerVars, publishVars,
                   batchVars, recorderVars, emitterVars, fanoutVars>>

\* the for loop ran out: raise ValueError("未找到目标工具调用...")
RaiseNotFound ==
    /\ loop.status = "running" /\ loop.pc = "llm"
    /\ ~iterations_left(loop)
    /\ loop' = [loop EXCEPT !.status = "raised", !.error = "TerminalToolNotCalled"]
    /\ UNCHANGED <<agent, wfVars, debateVars, riskVars, loggerVars, publishVars,
                   batchVars, recorderVars, emitterVars, fanoutVars>>

\* the agent's code around the loop: build the artifact from the result and
\* publish it; any exception, the loop's or an AttributeError from reading a
\* str result, is caught and turned into success=False
AgentFinish ==
    /\ agent.kind # Nil /\ agent.state = "calling"
    /\ loop.status \in {"returned", "raised"}
    /\ agent' =
         IF loop.status = "raised"
         THEN [agent EXCEPT !.state = "done"]
         ELSE IF loop.retval.type = "dict"
              THEN [agent EXCEPT !.state = "done", !.success = TRUE,
                                 !.published = loop.retval]
              ELSE [agent EXCEPT !.state = "done",
                                 !.published = IF stores_before_reading(agent.kind)
                                               THEN loop.retval ELSE @]
    /\ UNCHANGED <<loop, wfVars, debateVars, riskVars, loggerVars, publishVars,
                   batchVars, recorderVars, emitterVars, fanoutVars>>

LoopInit ==
    /\ current_session = NoSession
    /\ session_history = <<>>
    /\ session_counter = 0
    /\ caller = [kind |-> "direct", selected |-> {}]
    /\ wf = [s \in Symbols |-> IdleFrame]
    /\ loopIdle /\ debateIdle /\ riskIdle /\ loggerIdle /\ publishIdle
    /\ batchIdle /\ recorderIdle /\ emitterIdle /\ fanoutIdle

LoopNext ==
    \/ StartLoop
    \/ LLMCall
    \/ ExecuteToolCall
    \/ AfterToolCalls
    \/ RaiseNotFound
    \/ AgentFinish

LoopSpec == LoopInit /\ [][LoopNext]_vars

----------------------------------------------------------------------------
(* The research debate coordinator *)

\* the largest max_rounds a debate coordinator is configured with
MaxRounds == 2

Decisions == {"BUY", "SELL", "HOLD"}

\* an analyst report as conduct_research_debate receives it: the AnalysisReport
\* object the workflow passes, or a plain dict; confidence in tenths
Report(form, recommendation, confidence_score) ==
    [form |-> form, recommendation |-> recommendation,
     confidence_score |-> confidence_score]

\* the analysis_reports dicts a debate is run with
AnalysisReportInputs ==
    {("technical" :> Report("AnalysisReport", "BUY", 8)),
     ("technical" :> Report("AnalysisReport", "SELL", 8))
        @@ ("news" :> Report("AnalysisReport", "BUY", 5)),
     ("technical" :> Report("dict", "BUY", 8)) @@ ("news" :> Report("dict", "SELL", 5)),
     ("technical" :> Report("dict", "BUY", 5)) @@ ("news" :> Report("dict", "SELL", 5)),
     ("technical" :> Report("dict", "SELL", 8)) @@ ("news" :> Report("dict", "HOLD", 5))}

\* DebateState(participants, current_round=0, max_rounds)
DebateState(max_rounds) ==
    [messages |-> <<>>, current_round |-> 0, max_rounds |-> max_rounds,
     consensus_reached |-> FALSE, final_decision |-> Nil]

\* what a researcher says in a round (round 0: its initial thesis)
Said(s, speaker, round) == [by |-> s, speaker |-> speaker, round |-> round]

\* StateManager.add_debate_message: the field of the current session whose
\* debate state receives a message of that type, Nil when it is stored nowhere
debate_message_field(cur, debate_type) ==
    IF cur = NoSession THEN Nil
    ELSE IF debate_type = "research" /\ cur.research_debate # Nil THEN "research_debate"
    ELSE IF debate_type = "risk" /\ cur.risk_debate # Nil THEN "risk_debate"
    ELSE Nil

\* StateManager.add_debate_message called by a researcher
add_debate_message(states, cur, debate_type, sender, content, metadata) ==
    IF debate_message_field(cur, debate_type) = "research_debate"
    THEN [states EXCEPT ![cur.research_debate].messages =
             Append(@, [sender |-> sender, content |-> content,
                        metadata |-> metadata])]
    ELSE states

\* both initial researches must have succeeded
initial_research_ok_either(bull_success, bear_success) == bull_success \/ bear_success

initial_research_ok(bull_success, bear_success) == bull_success /\ bear_success

\* a Bull that always answers the Bear's initial thesis
bull_opponent_msg_thesis(debate_history, bear_thesis) == bear_thesis

\* opponent_msg of the Bull's turn: the Bear's last message, else the Bear's thesis
bull_opponent_msg(debate_history, bear_thesis) ==
    IF debate_history # <<>> /\ debate_history[Len(debate_history)].speaker = "bear"
    THEN debate_history[Len(debate_history)].message
    ELSE bear_thesis

\* summed confidence of the reports with a recommendation
RECURSIVE signals(_, _, _)
signals(analysis_reports, keys, recommendation) ==
    IF keys = {} THEN 0
    ELSE LET k == CHOOSE x \in keys : TRUE
             rest == signals(analysis_reports, keys \ {k}, recommendation)
         IN IF analysis_reports[k].recommendation = recommendation
            THEN rest + analysis_reports[k].confidence_score
            ELSE rest

\* _default_judgment: report.get(...) raises AttributeError on an AnalysisReport
\* object; on dicts the decision follows the larger of the two sums
default_judgment(analysis_reports) ==
    IF \E k \in DOMAIN analysis_reports : analysis_reports[k].form # "dict"
    THEN [raised |-> TRUE, decision |-> Nil]
    ELSE LET buy_signals == signals(analysis_reports, DOMAIN analysis_reports, "BUY")
             sell_signals == signals(analysis_reports, DOMAIN analysis_reports, "SELL")
         IN [raised |-> FALSE,
             decision |-> IF buy_signals > sell_signals THEN "BUY"
                          ELSE IF sell_signals > buy_signals THEN "SELL"
                          ELSE "HOLD"]

\* coordinators that may run: one at a time for a direct caller, one per
\* workflow thread in a batch
MayDebate(s) ==
    caller.kind = "direct" =>
        /\ current_session # NoSession => s = current_session.symbol
        /\ \A u \in Symbols : rd[u].pc = "idle"

\* what a coordinator is run with: the workflows of a batch share one
\* configuration and pass the AnalysisReport objects of their analysis stage
DebateInputs(s) ==
    {in \in [max_rounds : 0..MaxRounds, analysis_reports : AnalysisReportInputs] :
        caller.kind = "batch" =>
            /\ \A k \in DOMAIN in.analysis_reports :
                   in.analysis_reports[k].form = "AnalysisReport"
            /\ \A u \in Symbols \ {s} :
                   rd[u].pc # "idle" => in.max_rounds = rd[u].max_rounds}

\* _do_conduct_research_debate up to the initial research: start_research_debate
RD_Start(s) ==
    /\ rd[s].pc = "idle"
    /\ MayDebate(s)
    /\ \E in \in DebateInputs(s) :
        LET max_rounds == in.max_rounds
            analysis_reports == in.analysis_reports
        IN
        rd' = [rd EXCEPT ![s] =
                 [pc |-> "research", max_rounds |-> max_rounds, round_num |-> 0,
                  analysis_reports |-> analysis_reports, debate_history |-> <<>>,
                  bull_success |-> FALSE, bear_success |-> FALSE,
                  judge_passes |-> 0, judge_failed |-> FALSE, judged_history |-> <<>>,
                  success |-> FALSE, decision |-> Nil]]
    /\ research_debate_state' =
          [research_debate_state EXCEPT ![s] = DebateState(rd'[s].max_rounds)]
    /\ current_session' = start_research_debate(current_session, s)
    /\ UNCHANGED <<session_history, session_counter, caller, wf, loopVars, riskVars,
                   loggerVars, publishVars, batchVars, recorderVars, emitterVars,
                   fanoutVars>>

\* a loop that holds its first round before testing max_rounds
first_turn_unconditional(max_rounds) == "bull"

\* for round_num in range(self.max_rounds): the Bull's turn of the first round,
\* or straight to the judgment when the range is empty
first_turn(max_rounds) == IF max_rounds = 0 THEN "judge" ELSE "bull"

\* both researchers' process() and the check of their success
RD_InitialResearch(s) ==
    /\ rd[s].pc = "research"
    /\ \E bull_success \in BOOLEAN, bear_success \in BOOLEAN :
        rd' = [rd EXCEPT ![s] =
                 [@ EXCEPT !.bull_success = bull_success,
                           !.bear_success = bear_success,
                           !.round_num = 1,
                           !.pc = IF ~initial_research_ok(bull_success, bear_success)
                                  THEN "done"
                                  ELSE first_turn(rd[s].max_rounds)]]
    /\ UNCHANGED <<research_debate_state, wfVars, loopVars, riskVars, loggerVars,
                   publishVars, batchVars, recorderVars, emitterVars, fanoutVars>>

\* the Bull's turn of a round: BullResearcher.debate and the history entry
RD_BullTurn(s) ==
    /\ rd[s].pc = "bull"
    /\ \/ LET opponent_msg == bull_opponent_msg(rd[s].debate_history, Said(s, "bear", 0))
             bull_response == Said(s, "bull", rd[s].round_num)
          IN /\ research_debate_state' =
                   add_debate_message(research_debate_state, current_session,
                                      "research", "bull", bull_response, opponent_msg)
             /\ rd' = [rd EXCEPT ![s] =
                         [@ EXCEPT !.pc = "bear",
                                   !.debate_history =
                                       Append(@, [round |-> rd[s].round_num,
                                                  speaker |-> "bull",
                                                  message |-> bull_response,
                                                  opponent_message |-> opponent_msg])]]
       \/ \* call_llm raised
          /\ rd' = [rd EXCEPT ![s] = [@ EXCEPT !.pc = "raised"]]
          /\ UNCHANGED research_debate_state
    /\ UNCHANGED <<wfVars, loopVars, riskVars, loggerVars, publishVars, batchVars,
                   recorderVars, emitterVars, fanoutVars>>

\* the Bear's turn of a round: BearResearcher.debate and the history entry
RD_BearTurn(s) ==
    /\ rd[s].pc = "bear"
    /\ \/ LET bull_response == rd[s].debate_history[Len(rd[s].debate_history)].message
             bear_response == Said(s, "bear", rd[s].round_num)
          IN /\ research_debate_state' =
                   add_debate_message(research_debate_state, current_session,
                                      "research", "bear", bear_response, bull_response)
             /\ rd' = [rd EXCEPT ![s] =
                         [@ EXCEPT !.pc = IF rd[s].round_num < rd[s].max_rounds
                                          THEN "bull" ELSE "judge",
                                   !.round_num = @ + 1,
                                   !.debate_history =
                                       Append(@, [round |-> rd[s].round_num,
                                                  speaker |-> "bear",
                                                  message |-> bear_response,
                                                  opponent_message |-> bull_response])]]
       \/ \* call_llm raised
          /\ rd' = [rd EXCEPT ![s] = [@ EXCEPT !.pc = "raised"]]
          /\ UNCHANGED research_debate_state
    /\ UNCHANGED <<wfVars, loopVars, riskVars, loggerVars, publishVars, batchVars,
                   recorderVars, emitterVars, fanoutVars>>

\* what the judge's tool-call loop hands back: the emitter's result, the failure
\* text execute_tool returns for a call it could not execute, or an exception
JudgeOutcomes == {"result", "failure_text", "raised"}

\* _judge_debate (the judge's tool-call loop, _default_judgment when it raises)
\* and the sealing of the debate state: consensus_reached is set first, then
\* debate_result['decision'] is read, which raises on the failure text
RD_Judge(s) ==
    /\ rd[s].pc = "judge"
    /\ \E judged \in JudgeOutcomes, llm_decision \in Decisions :
        LET result == IF judged = "raised" THEN default_judgment(rd[s].analysis_reports)
                      ELSE [raised |-> FALSE, decision |-> llm_decision]
            subscripted == judged # "failure_text"
        IN /\ rd' = [rd EXCEPT ![s] =
                       [@ EXCEPT !.judge_passes = @ + 1,
                                 !.judged_history = rd[s].debate_history,
                                 !.judge_failed = judged = "raised",
                                 !.pc = IF result.raised \/ ~subscripted
                                        THEN "raised" ELSE "done",
                                 !.success = ~result.raised /\ subscripted,
                                 !.decision = IF subscripted THEN result.decision
                                              ELSE Nil]]
           /\ research_debate_state' =
                 IF result.raised THEN research_debate_state
                 ELSE IF subscripted
                 THEN [research_debate_state EXCEPT
                          ![s].consensus_reached = TRUE,
                          ![s].final_decision = result.decision]
                 ELSE [research_debate_state EXCEPT
                          ![s].consensus_reached = TRUE]
    /\ UNCHANGED <<wfVars, loopVars, riskVars, loggerVars, publishVars, batchVars,
                   recorderVars, emitterVars, fanoutVars>>

\* a debate is about to start: in a workflow of a direct caller, in a direct
\* call without a session, or in two concurrent workflows of a batch after
\* both have started their session
DebateInit ==
    /\ caller \in {[kind |-> "direct", selected |-> {}],
                   [kind |-> "batch", selected |-> {"technical"}]}
    /\ \E s \in Symbols :
          IF caller.kind = "batch"
          THEN /\ session_counter = 2
               /\ current_session = start_session(2, s)
          ELSE /\ session_counter \in {0, 1}
               /\ current_session = IF session_counter = 0 THEN NoSession
                                    ELSE start_session(1, s)
    /\ session_history = <<>>
    /\ wf = [s \in Symbols |-> IdleFrame]
    /\ loopIdle /\ debateIdle /\ riskIdle /\ loggerIdle /\ publishIdle
    /\ batchIdle /\ recorderIdle /\ emitterIdle /\ fanoutIdle

DebateNext ==
    \/ \E s \in Symbols : RD_Start(s)
    \/ \E s \in Symbols : RD_InitialResearch(s)
    \/ \E s \in Symbols : RD_BullTurn(s)
    \/ \E s \in Symbols : RD_BearTurn(s)
    \/ \E s \in Symbols : RD_Judge(s)

DebateSpec == DebateInit /\ [][DebateNext]_vars

----------------------------------------------------------------------------
(* The risk debate coordinator *)

\* the largest max_rounds a risk debate coordinator is configured with
MaxRiskRounds == 3

\* total content length below which a debate is never ended early
MIN_TOTAL_CONTENT_LENGTH == 500

\* number of latest history entries looked at for repetition
RECENT_ENTRIES == 6

\* number of latest lines looked at for repetition
RECENT_LINES == 6

\* a keyword found in more lines than this is a repetition
MAX_KEYWORD_LINES == 3

\* keywords = ['风险', '收益', '建议', '认为', '应该']
keywords == {"risk", "return", "advise", "think", "should"}

\* a stretch of text between two occurrences of the two characters \n,
\* by the keywords that occur in it (once each)
Piece(blank, words) == [blank |-> blank, keywords |-> words]

\* what an analyst may answer: a text is its length and its pieces. A terse
\* answer holds one \n with the keyword on both sides; a lengthy answer holds
\* none (its line breaks are newline characters)
Contents ==
    {[len |-> 20, pieces |-> <<Piece(FALSE, {"risk"}), Piece(FALSE, {"risk"})>>],
     [len |-> 300, pieces |-> <<Piece(FALSE, {"risk", "should"})>>]}

\* a + ' ' + b
JoinTexts(a, b) ==
    SubSeq(a, 1, Len(a) - 1)
        \o <<Piece(a[Len(a)].blank /\ b[1].blank,
                   a[Len(a)].keywords \cup b[1].keywords)>>
        \o Tail(b)

\* ' '.join(texts) of a non-empty list
RECURSIVE join(_)
join(texts) ==
    IF Len(texts) = 1 THEN texts[1]
    ELSE JoinTexts(join(SubSeq(texts, 1, Len(texts) - 1)), texts[Len(texts)])

\* seq[-n:]
Last(seq, n) == SubSeq(seq, IF Len(seq) > n THEN Len(seq) - n + 1 ELSE 1, Len(seq))

\* sum(len(entry['content']) for entry in debate_history)
RECURSIVE total_content_length(_)
total_content_length(debate_history) ==
    IF debate_history = <<>> THEN 0
    ELSE debate_history[1].content.len + total_content_length(Tail(debate_history))

\* _detect_repetition: text.split('\\n') cuts the text at the two characters
\* backslash-n; some keyword occurs in more than three of the last six
\* non-blank lines
detect_repetition(text) ==
    LET lines == text
        recent_lines == SelectSeq(Last(lines, RECENT_LINES), LAMBDA line : ~line.blank)
        keyword_counts == [keyword \in keywords |->
            Cardinality({i \in 1..Len(recent_lines) :
                            keyword \in recent_lines[i].keywords})]
    IN \E keyword \in keywords : keyword_counts[keyword] > MAX_KEYWORD_LINES

\* an early end that does not look at the length of the history
should_end_debate_any_length(debate_history, current_round, max_rounds) ==
    \/ current_round >= max_rounds
    \/ /\ Len(debate_history) >= RECENT_ENTRIES
       /\ detect_repetition(join([i \in 1..RECENT_ENTRIES |->
              Last(debate_history, RECENT_ENTRIES)[i].content.pieces]))

\* _should_end_debate
should_end_debate(debate_history, current_round, max_rounds) ==
    IF current_round >= max_rounds THEN TRUE
    ELSE IF total_content_length(debate_history) < MIN_TOTAL_CONTENT_LENGTH THEN FALSE
    ELSE /\ Len(debate_history) >= RECENT_ENTRIES
         /\ detect_repetition(join([i \in 1..RECENT_ENTRIES |->
                Last(debate_history, RECENT_ENTRIES)[i].content.pieces]))

Speakers == <<"conservative", "aggressive", "neutral">>

\* an opponent argument: an analyst's initial analysis, or a history entry
InitialAnalysis(speaker) == [initial |-> TRUE, speaker |-> speaker, round |-> 0]

HistoryEntry(entry) == [initial |-> FALSE, speaker |-> entry.speaker, round |-> entry.round]

\* the history entries of the other speakers, in order
RECURSIVE opponent_entries(_, _)
opponent_entries(current_speaker, debate_history) ==
    IF debate_history = <<>> THEN <<>>
    ELSE LET entry == debate_history[Len(debate_history)]
             before == opponent_entries(current_speaker,
                                        SubSeq(debate_history, 1, Len(debate_history) - 1))
         IN IF entry.speaker # current_speaker THEN Append(before, HistoryEntry(entry))
            ELSE before

\* _get_opponent_arguments: the initial analyses of the other two when nothing
\* was said yet in round 1, else every entry of the other speakers
get_opponent_arguments(current_speaker, debate_history, current_round) ==
    IF current_round = 1 /\ debate_history = <<>>
    THEN CASE current_speaker = "conservative" ->
                <<InitialAnalysis("aggressive"), InitialAnalysis("neutral")>>
           [] current_speaker = "aggressive" ->
                <<InitialAnalysis("conservative"), InitialAnalysis("neutral")>>
           [] current_speaker = "neutral" ->
                <<InitialAnalysis("conservative"), InitialAnalysis("aggressive")>>
    ELSE opponent_entries(current_speaker, debate_history)

\* DebateConfig: the round counts a workflow is configured with
DebateConfigs ==
    [research_team_max_rounds : 0..MaxRiskRounds, risk_team_max_rounds : 0..MaxRiskRounds]

\* _create_agents: max_rounds of the two coordinators it builds; both are
\* given config.debate.research_team_max_rounds
create_agents(config) ==
    [debate_coordinator |-> config.research_team_max_rounds,
     risk_debate_coordinator |-> config.research_team_max_rounds]

\* conduct_risk_debate of the coordinator the workflow built starts: the
\* DebateState and the analysis context
RK_Start ==
    /\ risk.pc = "idle"
    /\ \E config \in DebateConfigs :
        LET max_rounds == create_agents(config).risk_debate_coordinator
        IN
        risk' = [pc |-> "analysis", config |-> config,
                 max_rounds |-> max_rounds, round_num |-> 0,
                 debate_history |-> <<>>,
                 debate_state |-> DebateState(max_rounds),
                 analysis_success |-> <<>>,
                 ended_early |-> FALSE, evaluated |-> FALSE, risk_manager |-> Nil,
                 success |-> FALSE]
    /\ UNCHANGED <<wfVars, loopVars, debateVars, loggerVars, publishVars, batchVars,
                   recorderVars, emitterVars, fanoutVars>>

\* phase 1: the three independent analyses, whose success is not looked at
RK_IndependentAnalysis ==
    /\ risk.pc = "analysis"
    /\ \E analysis_success \in [1..3 -> BOOLEAN] :
        risk' = [risk EXCEPT !.analysis_success = analysis_success,
                             !.round_num = 1,
                             !.pc = IF risk.max_rounds = 0 THEN "risk_manager"
                                    ELSE "conservative"]
    /\ UNCHANGED <<wfVars, loopVars, debateVars, loggerVars, publishVars, batchVars,
                   recorderVars, emitterVars, fanoutVars>>

\* a round in which the Aggressive analyst is passed over
NextSpeaker_passing(speaker) ==
    CASE speaker = "conservative" -> "neutral"
      [] speaker = "aggressive" -> "neutral"
      [] speaker = "neutral" -> "conservative"

\* who speaks after a speaker within a round
NextSpeaker(speaker) ==
    CASE speaker = "conservative" -> "aggressive"
      [] speaker = "aggressive" -> "neutral"
      [] speaker = "neutral" -> "conservative"

\* one turn of phase 2: the opponent arguments, the analyst's debate_response
\* (which hands its answer to add_debate_message as a 'risk_management'
\* message) and the history entry; after the Neutral's turn, _should_end_debate
RK_DebateResponse ==
    /\ risk.pc \in {"conservative", "aggressive", "neutral"}
    /\ \/ \E content \in Contents :
            LET opponent_args == get_opponent_arguments(risk.pc, risk.debate_history,
                                                        risk.round_num)
                history == Append(risk.debate_history,
                                  [round |-> risk.round_num, speaker |-> risk.pc,
                                   content |-> content,
                                   opponent_args |-> opponent_args])
                stored == debate_message_field(current_session, "risk_management")
                                = "risk_debate"
                ends == should_end_debate(history, risk.round_num, risk.max_rounds)
            IN risk' = [risk EXCEPT
                          !.debate_history = history,
                          !.debate_state.messages =
                              IF stored THEN Append(@, [sender |-> risk.pc,
                                                        content |-> content,
                                                        metadata |-> opponent_args])
                              ELSE @,
                          !.pc = IF risk.pc = "neutral" /\ ends THEN "risk_manager"
                                 ELSE NextSpeaker(risk.pc),
                          !.round_num = IF risk.pc = "neutral" /\ ~ends THEN @ + 1 ELSE @,
                          !.ended_early = risk.pc = "neutral" /\ ends
                                              /\ risk.round_num < risk.max_rounds]
       \/ \* call_llm raised: the except clause returns the failure
          risk' = [risk EXCEPT !.pc = "done"]
    /\ UNCHANGED <<wfVars, loopVars, debateVars, loggerVars, publishVars, batchVars,
                   recorderVars, emitterVars, fanoutVars>>

\* phase 3: the risk manager's evaluation, the sealing of the DebateState and
\* its handing to the session
RK_RiskManager ==
    /\ risk.pc = "risk_manager"
    /\ \E rm \in RiskManagerOutcomes :
        LET stored == IF risk_manager_stores(rm) /\ current_session # NoSession
                      THEN set_risk_management_decision(current_session,
                                                        current_session.symbol)
                      ELSE current_session
            \* round_num is unbound when the loop ran no round
            success == conduct_risk_debate(risk.max_rounds > 0, rm, stored)
        IN /\ risk' = [risk EXCEPT
                         !.pc = "done", !.success = success, !.evaluated = TRUE,
                         !.risk_manager = rm,
                         !.debate_state.current_round =
                             IF rm # "raised" /\ risk.max_rounds > 0
                             THEN risk.round_num ELSE @]
           /\ current_session' =
                 IF success THEN [stored EXCEPT !.risk_debate = stored.symbol]
                 ELSE stored
    /\ UNCHANGED <<session_history, session_counter, caller, wf, loopVars, debateVars,
                   loggerVars, publishVars, batchVars, recorderVars, emitterVars,
                   fanoutVars>>

\* a risk debate is about to start, in the session of a workflow that has a
\* trader decision, or without a session
RiskInit ==
    /\ caller = [kind |-> "direct", selected |-> {}]
    /\ \E s \in Symbols :
          /\ session_counter \in {0, 1}
          /\ current_session = IF session_counter = 0 THEN NoSession
                               ELSE set_trading_decision(start_session(1, s), s)
    /\ session_history = <<>>
    /\ wf = [s \in Symbols |-> IdleFrame]
    /\ loopIdle /\ debateIdle /\ riskIdle /\ loggerIdle /\ publishIdle
    /\ batchIdle /\ recorderIdle /\ emitterIdle /\ fanoutIdle

RiskNext ==
    \/ RK_Start
    \/ RK_IndependentAnalysis
    \/ RK_DebateResponse
    \/ RK_RiskManager

RiskSpec == RiskInit /\ [][RiskNext]_vars

----------------------------------------------------------------------------
(* The call chain log *)

\* the largest number of log_agent_llm_chain calls in a run
MaxChains == 3

\* the tickers agents are run with
Tickers == {"AAPL", "aapl", "MSFT"}

\* str.upper
upper(ticker) == IF ticker = "aapl" THEN "AAPL" ELSE ticker

\* the threads inside log_agent_llm_chain
Logging == {t \in Threads : emit[t].pc # "idle"}

\* agents log at once only as the parallel analysts of one workflow, unless
\* the workflows themselves run at once in a batch
MayLog(ticker) ==
    caller.kind = "direct" => \A t \in Logging : emit[t].ticker = ticker

\* an agent's execute_with_llm_logging reaches log_agent_llm_chain
LogAgentLLMChain(t) ==
    /\ emit[t].pc = "idle"
    /\ Len(llm_chains) + Cardinality(Logging) < MaxChains
    /\ \E ticker \in Tickers :
        /\ MayLog(ticker)
        /\ emit' = [emit EXCEPT ![t] = [pc |-> "ticker", ticker |-> ticker, counter |-> 0]]
    /\ UNCHANGED <<trading_logger, llm_chains, today, wfVars, loopVars, debateVars,
                   riskVars, publishVars, batchVars, recorderVars, emitterVars, fanoutVars>>

\* if self._current_session_ticker != ticker.upper(): set the ticker
LogSetTicker(t) ==
    /\ emit[t].pc = "ticker"
    /\ IF trading_logger.current_session_ticker # upper(emit[t].ticker)
       THEN /\ trading_logger' = [trading_logger EXCEPT
                                     !.current_session_ticker = upper(emit[t].ticker)]
            /\ emit' = [emit EXCEPT ![t].pc = "reset"]
       ELSE /\ emit' = [emit EXCEPT ![t].pc = "load"]
            /\ UNCHANGED trading_logger
    /\ UNCHANGED <<llm_chains, today, wfVars, loopVars, debateVars, riskVars,
                   publishVars, batchVars, recorderVars, emitterVars, fanoutVars>>

\* self._session_call_counter = 0
LogResetCounter(t) ==
    /\ emit[t].pc = "reset"
    /\ trading_logger' = [trading_logger EXCEPT !.session_call_counter = 0]
    /\ emit' = [emit EXCEPT ![t].pc = "load"]
    /\ UNCHANGED <<llm_chains, today, wfVars, loopVars, debateVars, riskVars,
                   publishVars, batchVars, recorderVars, emitterVars, fanoutVars>>

\* self._session_call_counter += 1, the read
LogLoadCounter(t) ==
    /\ emit[t].pc = "load"
    /\ emit' = [emit EXCEPT ![t].pc = "store",
                            ![t].counter = trading_logger.session_call_counter]
    /\ UNCHANGED <<trading_logger, llm_chains, today, wfVars, loopVars, debateVars,
                   riskVars, publishVars, batchVars, recorderVars, emitterVars, fanoutVars>>

\* self._session_call_counter += 1, the value written
incremented(loaded, current) == loaded + 1

\* self._session_call_counter += 1, the write
LogStoreCounter(t) ==
    /\ emit[t].pc = "store"
    /\ trading_logger' = [trading_logger EXCEPT
          !.session_call_counter = incremented(emit[t].counter, @)]
    /\ emit' = [emit EXCEPT ![t].pc = "write"]
    /\ UNCHANGED <<llm_chains, today, wfVars, loopVars, debateVars, riskVars,
                   publishVars, batchVars, recorderVars, emitterVars, fanoutVars>>

\* the file of the chain: its directory is the date and the ticker, its name
\* starts with the counter as it is now
LogWriteChain(t) ==
    /\ emit[t].pc = "write"
    /\ llm_chains' = Append(llm_chains,
                            [date |-> today, ticker |-> upper(emit[t].ticker),
                             number |-> trading_logger.session_call_counter,
                             thread |-> t])
    /\ emit' = [emit EXCEPT ![t] = [pc |-> "idle"]]
    /\ UNCHANGED <<trading_logger, today, wfVars, loopVars, debateVars, riskVars,
                   publishVars, batchVars, recorderVars, emitterVars, fanoutVars>>

\* the day ends
Midnight ==
    /\ today = 1
    /\ today' = 2
    /\ UNCHANGED <<trading_logger, llm_chains, emit, wfVars, loopVars, debateVars,
                   riskVars, publishVars, batchVars, recorderVars, emitterVars, fanoutVars>>

\* the logger of a fresh process, agents run by workflows of a direct caller
\* or of a batch
ChainInit ==
    /\ caller \in {[kind |-> "direct", selected |-> {}],
                   [kind |-> "batch", selected |-> {"technical"}]}
    /\ current_session = NoSession
    /\ session_history = <<>>
    /\ session_counter = 0
    /\ wf = [s \in Symbols |-> IdleFrame]
    /\ loopIdle /\ debateIdle /\ riskIdle /\ loggerIdle /\ publishIdle
    /\ batchIdle /\ recorderIdle /\ emitterIdle /\ fanoutIdle

ChainNext ==
    \/ \E t \in Threads : LogAgentLLMChain(t)
    \/ \E t \in Threads : LogSetTicker(t)
    \/ \E t \in Threads : LogResetCounter(t)
    \/ \E t \in Threads : LogLoadCounter(t)
    \/ \E t \in Threads : LogStoreCounter(t)
    \/ \E t \in Threads : LogWriteChain(t)
    \/ Midnight

ChainSpec == ChainInit /\ [][ChainNext]_vars

----------------------------------------------------------------------------
(* The state manager under the parallel analysts of one session *)

\* the order in which get_current_session_state reads the report slots
report_slots == <<"fundamental", "sentiment", "news", "technical">>

\* the analyst types no worker has taken yet: the pool runs one task per type
Untaken ==
    {a \in AnalystTypes :
        /\ current_session.reports[a] = Nil
        /\ \A t \in Threads : pub[t].pc = "store" => pub[t].role # a}

\* add_analysis_report, the test for a session: without one it returns
AddReportEnter(t) ==
    /\ pub[t].pc = "idle"
    /\ \E a \in Untaken :
        pub' = [pub EXCEPT ![t] = IF current_session = NoSession THEN [pc |-> "idle"]
                                  ELSE [pc |-> "store", role |-> a]]
    /\ UNCHANGED <<wfVars, loopVars, debateVars, riskVars, loggerVars, batchVars,
                   recorderVars, emitterVars, fanoutVars>>

\* add_analysis_report, the assignment to the slot of the report's role
AddReportStore(t) ==
    /\ pub[t].pc = "store"
    /\ current_session' = add_analysis_report(current_session, pub[t].role,
                                              current_session.symbol)
    /\ pub' = [pub EXCEPT
                  ![t] = [pc |-> "idle"],
                  ![Reader] = IF pub[Reader].pc = "read"
                              THEN [@ EXCEPT !.states = @ \cup {current_session'.reports}]
                              ELSE @]
    /\ UNCHANGED <<session_history, session_counter, caller, wf, loopVars, debateVars,
                   riskVars, loggerVars, batchVars, recorderVars, emitterVars, fanoutVars>>

\* get_current_session_state: session = self.current_session
ReadSessionState ==
    /\ pub[Reader].pc \in {"idle", "returned"}
    /\ pub' = [pub EXCEPT ![Reader] =
                 IF current_session = NoSession THEN [pc |-> "idle"]
                 ELSE [pc |-> "read", next |-> 1,
                       analysis_reports |-> [a \in AnalystTypes |-> Nil],
                       states |-> {current_session.reports}]]
    /\ UNCHANGED <<wfVars, loopVars, debateVars, riskVars, loggerVars, batchVars,
                   recorderVars, emitterVars, fanoutVars>>

\* get_current_session_state: one slot is read into the returned dict
ReadReportSlot ==
    /\ pub[Reader].pc = "read"
    /\ LET slot == report_slots[pub[Reader].next]
       IN pub' = [pub EXCEPT ![Reader] =
                    [@ EXCEPT !.analysis_reports[slot] = current_session.reports[slot],
                              !.next = @ + 1,
                              !.pc = IF pub[Reader].next = Len(report_slots)
                                     THEN "returned" ELSE "read"]]
    /\ UNCHANGED <<wfVars, loopVars, debateVars, riskVars, loggerVars, batchVars,
                   recorderVars, emitterVars, fanoutVars>>

\* the analysis stage of one workflow: its session exists, no report yet
PublishInit ==
    /\ caller = [kind |-> "direct", selected |-> {}]
    /\ session_counter = 1
    /\ \E s \in Symbols : current_session = start_session(1, s)
    /\ session_history = <<>>
    /\ wf = [s \in Symbols |-> IdleFrame]
    /\ loopIdle /\ debateIdle /\ riskIdle /\ loggerIdle /\ publishIdle
    /\ batchIdle /\ recorderIdle /\ emitterIdle /\ fanoutIdle

PublishNext ==
    \/ \E t \in Threads : AddReportEnter(t)
    \/ \E t \in Threads : AddReportStore(t)
    \/ ReadSessionState
    \/ ReadReportSlot

PublishSpec == PublishInit /\ [][PublishNext]_vars

----------------------------------------------------------------------------
(* The batch portfolio analyzer *)

MaxSymbols == 2

\* the symbol lists analyze_portfolio is called with (a symbol may be listed twice)
SymbolLists == UNION {[1..n -> Symbols] : n \in 0..MaxSymbols}

\* an empty dict
EmptyDict == <<>>

\* d[key] = value
DictSet(d, key, value) ==
    [k \in DOMAIN d \cup {key} |-> IF k = key THEN value ELSE d[k]]

\* what get_market_summary returns: a summary, a dict with an error field, or
\* an exception
FetchOutcomes == {"summary", "error_field", "raised"}

\* the summary of a symbol
market_summary(symbol) == DictSet(EmptyDict, "current_price", symbol)

\* _fetch_market_data, one iteration: only a summary without an error field is
\* stored; the other two outcomes are printed and leave the symbol without data
fetch_market_data(market_data_dict, symbol, outcome) ==
    IF outcome = "summary"
    THEN DictSet(market_data_dict, symbol, market_summary(symbol))
    ELSE market_data_dict

\* execute_trading_workflow: market_data = market_data or {} and
\* market_data['current_position_size'] = current_position_size; object says
\* whether the dict written to is the caller's or a new one
initialize_market_data(market_data, current_position_size) ==
    [object |-> IF market_data = EmptyDict THEN "new" ELSE "callers",
     value |-> DictSet(market_data, "current_position_size", current_position_size)]

\* _prepare_analyst_tasks: base_context = {'symbol': symbol, **market_data}
base_context(symbol, market_data) ==
    [k \in {"symbol"} \cup DOMAIN market_data |->
        IF k \in DOMAIN market_data THEN market_data[k] ELSE symbol]

\* the analysts' test: not market_data or 'error' in market_data
market_data_invalid(context) == context = EmptyDict \/ "error" \in DOMAIN context

\* the analysts that make this test (technical_analyst.py:70, fundamental_analyst.py:75)
ValidatingAnalysts == {"technical", "fundamental"}

\* whether the analysis stage can succeed: some selected analyst may deliver a report
analysis_may_succeed(selected, context) ==
    \E a \in selected \cap AnalystTypes :
        a \in ValidatingAnalysts => ~market_data_invalid(context)

\* confidence scores of trading decisions, in tenths
Confidences == {5, 8}

\* what _analyze_single_stock's workflow call comes to
WorkflowOutcomes == {"success", "failure", "raised"}

\* results.sort(key=lambda x: x.confidence_score, reverse=True): a stable sort,
\* results of equal confidence keep their order
RECURSIVE sort_by_confidence(_)
sort_by_confidence(results) ==
    IF results = <<>> THEN <<>>
    ELSE LET n == Len(results)
             last == results[n]
             rest == sort_by_confidence(SubSeq(results, 1, n - 1))
             ahead == {i \in 1..Len(rest) :
                          rest[i].confidence_score >= last.confidence_score}
             k == Cardinality(ahead)
         IN SubSeq(rest, 1, k) \o <<last>> \o SubSeq(rest, k + 1, Len(rest))

Futures == 1..Len(batch.symbols)

\* analyze_portfolio up to the thread pool: _fetch_market_data, one symbol
BA_FetchMarketData ==
    /\ batch.pc = "fetch"
    /\ batch.idx <= Len(batch.symbols)
    /\ \E outcome \in FetchOutcomes :
        LET symbol == batch.symbols[batch.idx]
            fetched == fetch_market_data(batch.market_data_dict, symbol, outcome)
        IN batch' = [batch EXCEPT !.idx = @ + 1,
                                  !.market_data_dict = fetched,
                                  !.fetched = fetched,
                                  !.fetch = Append(@, outcome)]
    /\ UNCHANGED <<wfVars, loopVars, debateVars, riskVars, loggerVars, publishVars,
                   recorderVars, emitterVars, fanoutVars>>

\* executor.submit for every symbol with market_data_dict.get(symbol, {})
BA_Submit ==
    /\ batch.pc = "fetch"
    /\ batch.idx > Len(batch.symbols)
    /\ batch' = [batch EXCEPT !.pc = "pool",
                              !.future = [i \in Futures |-> [state |-> "running"]]]
    /\ UNCHANGED <<wfVars, loopVars, debateVars, riskVars, loggerVars, publishVars,
                   recorderVars, emitterVars, fanoutVars>>

\* _analyze_single_stock in a pool thread: execute_trading_workflow in quick mode,
\* an exception out of it turned into a failure result
BA_AnalyzeSingleStock(i) ==
    /\ batch.pc = "pool"
    /\ batch.future[i].state = "running"
    /\ \E outcome \in WorkflowOutcomes, confidence_score \in Confidences :
        LET symbol == batch.symbols[i]
            market_data == IF symbol \in DOMAIN batch.market_data_dict
                           THEN batch.market_data_dict[symbol]
                           ELSE EmptyDict
            initialized == initialize_market_data(market_data, 0)
            context == base_context(symbol, initialized.value)
            success == outcome = "success"
        IN /\ success => analysis_may_succeed(caller.selected, context)
           /\ ~success => confidence_score = 5
           /\ batch' =
                [batch EXCEPT
                    !.market_data_dict =
                        IF initialized.object = "callers"
                        THEN DictSet(@, symbol, initialized.value)
                        ELSE @,
                    !.future[i] =
                        [state |-> "done", success |-> success,
                         confidence_score |-> IF success THEN confidence_score
                                              ELSE Nil]]
    /\ UNCHANGED <<wfVars, loopVars, debateVars, riskVars, loggerVars, publishVars,
                   recorderVars, emitterVars, fanoutVars>>

\* the as_completed loop, one future: a success goes to results, anything else
\* to errors
BA_Collect(i) ==
    /\ batch.pc = "pool"
    /\ batch.future[i].state = "done"
    /\ batch' =
         [batch EXCEPT
             !.future[i].state = "collected",
             !.results = IF batch.future[i].success
                         THEN Append(@, [symbol |-> batch.symbols[i], future |-> i,
                                         confidence_score |->
                                             batch.future[i].confidence_score])
                         ELSE @,
             !.errors = IF batch.future[i].success THEN @
                        ELSE Append(@, [symbol |-> batch.symbols[i], future |-> i])]
    /\ UNCHANGED <<wfVars, loopVars, debateVars, riskVars, loggerVars, publishVars,
                   recorderVars, emitterVars, fanoutVars>>

\* the rest of analyze_portfolio: the sort, _print_summary (which divides the
\* total time by len(results) + len(errors)) and the return
BA_Finish ==
    /\ batch.pc = "pool"
    /\ \A i \in Futures : batch.future[i].state = "collected"
    /\ LET results == sort_by_confidence(batch.results)
           total_count == Len(results) + Len(batch.errors)
       IN batch' = IF total_count = 0
                   THEN [batch EXCEPT !.pc = "raised", !.results = results]
                   ELSE [batch EXCEPT !.pc = "returned", !.results = results,
                                      !.returned =
                                          [success |-> TRUE,
                                           total_analyzed |-> Len(batch.symbols),
                                           successful_count |-> Len(results),
                                           failed_count |-> Len(batch.errors),
                                           results |-> results,
                                           errors |-> batch.errors]]
    /\ UNCHANGED <<wfVars, loopVars, debateVars, riskVars, loggerVars, publishVars,
                   recorderVars, emitterVars, fanoutVars>>

\* analyze_portfolio was called; without include_market_data nothing is fetched
BatchInit ==
    /\ wfInit /\ caller.kind = "batch"
    /\ \E symbols \in SymbolLists, include_market_data \in BOOLEAN :
        batch = [pc |-> "fetch", symbols |-> symbols,
                 include_market_data |-> include_market_data,
                 idx |-> IF include_market_data THEN 1 ELSE Len(symbols) + 1,
                 market_data_dict |-> EmptyDict, fetched |-> EmptyDict,
                 fetch |-> <<>>, future |-> <<>>, results |-> <<>>, errors |-> <<>>,
                 returned |-> Nil]
    /\ loopIdle /\ debateIdle /\ riskIdle /\ loggerIdle /\ publishIdle
    /\ recorderIdle /\ emitterIdle /\ fanoutIdle

BatchNext ==
    \/ BA_FetchMarketData
    \/ BA_Submit
    \/ \E i \in Futures : BA_AnalyzeSingleStock(i)
    \/ \E i \in Futures : BA_Collect(i)
    \/ BA_Finish

BatchSpec == BatchInit /\ [][BatchNext]_vars

----------------------------------------------------------------------------
(* The call chain recorder of one agent *)

MaxCalls == 2
MaxTurns == 2

\* a recorder that keeps its turns
reset_llm_chain_keeps(llm_call_chain) == llm_call_chain

\* ConversationManager.reset_llm_chain
reset_llm_chain(llm_call_chain) == <<>>

\* ConversationManager.record_llm_call
record_llm_call(llm_call_chain, turn) == Append(llm_call_chain, turn)

\* ConversationManager.save_llm_chain_log: the chains handed to
\* log_agent_llm_chain, which is called only for a recorder that is not empty
save_llm_chain_log(emitted, call, llm_call_chain, success) ==
    IF llm_call_chain # <<>>
    THEN Append(emitted, [call |-> call, llm_calls |-> llm_call_chain,
                          success |-> success])
    ELSE emitted

\* the call of process() in progress
CurrentCall == Len(conv.calls)

\* execute_with_llm_logging up to the try: the symbol is looked up in the
\* context and the recorder is reset
RC_Enter ==
    /\ conv.pc = "ready"
    /\ Len(conv.calls) < MaxCalls
    /\ \E has_symbol \in BOOLEAN :
        conv' = [conv EXCEPT
                    !.pc = "process",
                    !.llm_call_chain = reset_llm_chain(@),
                    !.calls = Append(@, [has_symbol |-> has_symbol, turns |-> <<>>,
                                         completed |-> FALSE, raised |-> FALSE])]
    /\ UNCHANGED <<wfVars, loopVars, debateVars, riskVars, loggerVars, publishVars,
                   batchVars, emitterVars, fanoutVars>>

\* an LLM invocation of the process function returned: call_llm or the tool-call
\* loop records the turn
RC_RecordLLMCall ==
    /\ conv.pc = "process"
    /\ Len(conv.calls[CurrentCall].turns) < MaxTurns
    /\ LET turn == conv.turn_counter + 1
       IN conv' = [conv EXCEPT
                      !.turn_counter = turn,
                      !.llm_call_chain = record_llm_call(@, turn),
                      !.calls[CurrentCall].turns = Append(@, turn)]
    /\ UNCHANGED <<wfVars, loopVars, debateVars, riskVars, loggerVars, publishVars,
                   batchVars, emitterVars, fanoutVars>>

\* an LLM invocation between two process() calls, by a method that does not go
\* through execute_with_llm_logging (evaluate_debate_quality)
RC_RecordOutside ==
    /\ conv.pc = "ready"
    /\ Cardinality(conv.outside) < MaxTurns
    /\ LET turn == conv.turn_counter + 1
       IN conv' = [conv EXCEPT
                      !.turn_counter = turn,
                      !.llm_call_chain = record_llm_call(@, turn),
                      !.outside = @ \cup {turn}]
    /\ UNCHANGED <<wfVars, loopVars, debateVars, riskVars, loggerVars, publishVars,
                   batchVars, emitterVars, fanoutVars>>

\* the process function returned or raised: the chain is saved when the context
\* named a symbol, and the result is returned or the exception raised again
RC_Leave ==
    /\ conv.pc = "process"
    /\ \E raised \in BOOLEAN, result_success \in BOOLEAN :
        conv' = [conv EXCEPT
                    !.pc = "ready",
                    !.calls[CurrentCall].completed = TRUE,
                    !.calls[CurrentCall].raised = raised,
                    !.emitted =
                        IF conv.calls[CurrentCall].has_symbol
                        THEN save_llm_chain_log(@, CurrentCall, conv.llm_call_chain,
                                                ~raised /\ result_success)
                        ELSE @]
    /\ UNCHANGED <<wfVars, loopVars, debateVars, riskVars, loggerVars, publishVars,
                   batchVars, emitterVars, fanoutVars>>

\* an agent after construction: an empty recorder
RecorderInit ==
    /\ wfInit /\ caller.kind = "direct"
    /\ conv = [pc |-> "ready", llm_call_chain |-> <<>>, turn_counter |-> 0,
               calls |-> <<>>, outside |-> {}, emitted |-> <<>>]
    /\ loopIdle /\ debateIdle /\ riskIdle /\ loggerIdle /\ publishIdle /\ batchIdle
    /\ emitterIdle /\ fanoutIdle

RecorderNext ==
    \/ RC_Enter
    \/ RC_RecordLLMCall
    \/ RC_RecordOutside
    \/ RC_Leave

RecorderSpec == RecorderInit /\ [][RecorderNext]_vars

----------------------------------------------------------------------------
(* The emitter tools and the artifacts built from their results *)

\* the agents whose artifact carries a recommendation
EmitterAgents == {"technical_analyst", "trader", "fund_manager"}

\* the recommendations an LLM may pass to an emitter
LLMRecommendations == {"BUY", "HOLD", "SELL", "STRONG_BUY"}

\* the scores an LLM may pass, in tenths: -0.1, 0.0, 0.5, 1.0, 1.5
LLMScores == {-1, 0, 5, 10, 15}

\* dict.get(key, default)
get(dict, key, default) == IF key \in DOMAIN dict THEN dict[key] ELSE default

\* emit_technical_analysis: the arguments are returned under their own names
emit_technical_analysis(recommendation, confidence_score) ==
    [k \in {"recommendation", "confidence_score"} |->
        IF k = "recommendation" THEN recommendation ELSE confidence_score]

\* emit_trading_decision
emit_trading_decision(recommendation, confidence_score, position_size) ==
    [k \in {"recommendation", "confidence_score", "position_size"} |->
        CASE k = "recommendation" -> recommendation
          [] k = "confidence_score" -> confidence_score
          [] k = "position_size" -> position_size]

\* emit_fund_manager_decision: the recommendation is returned as final_recommendation
emit_fund_manager_decision(final_recommendation, confidence_score, position_size) ==
    [k \in {"final_recommendation", "confidence_score", "position_size"} |->
        CASE k = "final_recommendation" -> final_recommendation
          [] k = "confidence_score" -> confidence_score
          [] k = "position_size" -> position_size]

\* the artifact an agent builds from its emitter's result: AnalysisReport(...),
\* TradingDecision(...) or the investment_decision dict, each field read with
\* .get and a default (0.5 for the confidence, 0.0 for the position size); the
\* fund manager reads the key recommendation and writes it as final_recommendation
build_artifact(agent_kind, result) ==
    [recommendation |-> get(result, "recommendation", "HOLD"),
     confidence_score |-> get(result, "confidence_score", 5),
     position_size |-> IF agent_kind = "technical_analyst" THEN Nil
                       ELSE get(result, "position_size", 0)]

\* the LLM's response carries the call of the agent's emitter with its arguments
EM_ToolCall ==
    /\ emission.pc = "llm"
    /\ \E recommendation \in LLMRecommendations, confidence_score \in LLMScores,
          position_size \in LLMScores, complete \in BOOLEAN :
        /\ emission.agent = "technical_analyst" => position_size = 0
        /\ ~complete => recommendation = "HOLD" /\ confidence_score = 5
                            /\ position_size = 0
        /\ emission' = [emission EXCEPT
                           !.pc = "tool",
                           !.arguments = [complete |-> complete,
                                          recommendation |-> recommendation,
                                          confidence_score |-> confidence_score,
                                          position_size |-> position_size]]
    /\ UNCHANGED <<wfVars, loopVars, debateVars, riskVars, loggerVars, publishVars,
                   batchVars, recorderVars, fanoutVars>>

\* execute_tool on the emitter: its dict, or the failure text when an argument
\* is missing
EM_ExecuteTool ==
    /\ emission.pc = "tool"
    /\ LET args == emission.arguments
       IN emission' =
            [emission EXCEPT
                !.pc = "build",
                !.result =
                    IF ~args.complete THEN failure_text("emit")
                    ELSE [type |-> "dict",
                          fields |->
                            CASE emission.agent = "technical_analyst" ->
                                   emit_technical_analysis(args.recommendation,
                                                           args.confidence_score)
                              [] emission.agent = "trader" ->
                                   emit_trading_decision(args.recommendation,
                                                         args.confidence_score,
                                                         args.position_size)
                              [] emission.agent = "fund_manager" ->
                                   emit_fund_manager_decision(args.recommendation,
                                                              args.confidence_score,
                                                              args.position_size)]]
    /\ UNCHANGED <<wfVars, loopVars, debateVars, riskVars, loggerVars, publishVars,
                   batchVars, recorderVars, fanoutVars>>

\* the agent's code after the loop: the artifact is built and published; on the
\* failure text the first .get raises and the agent returns success=False
EM_Publish ==
    /\ emission.pc = "build"
    /\ emission' =
         IF emission.result.type = "str"
         THEN [emission EXCEPT !.pc = "done", !.success = FALSE]
         ELSE [emission EXCEPT !.pc = "done", !.success = TRUE,
                               !.published = build_artifact(emission.agent,
                                                            emission.result.fields)]
    /\ UNCHANGED <<wfVars, loopVars, debateVars, riskVars, loggerVars, publishVars,
                   batchVars, recorderVars, fanoutVars>>

\* an agent has sent its prompt and waits for the LLM's tool call
EmitInit ==
    /\ wfInit /\ caller.kind = "direct"
    /\ \E agent_kind \in EmitterAgents :
        emission = [pc |-> "llm", agent |-> agent_kind, arguments |-> Nil,
                    result |-> Nil, success |-> FALSE, published |-> Nil]
    /\ loopIdle /\ debateIdle /\ riskIdle /\ loggerIdle /\ publishIdle /\ batchIdle
    /\ recorderIdle /\ fanoutIdle

EmitNext ==
    \/ EM_ToolCall
    \/ EM_ExecuteTool
    \/ EM_Publish

EmitSpec == EmitInit /\ [][EmitNext]_vars

----------------------------------------------------------------------------
(* The analyst fan-out over the list of selected analysts *)

MaxSelected == 3

\* the names a caller lists in selected_analysts; "macro" is no key of
\* ANALYST_CONFIGS
AnalystNames == {"technical", "news", "macro"}

\* the lists _run_analyst_team_parallel is given: a name may be listed twice
SelectedLists == UNION {[1..n -> AnalystNames] : n \in 1..MaxSelected}

\* _prepare_analyst_tasks: one task per entry of the list that is a key of
\* ANALYST_CONFIGS, in the list's order
prepare_analyst_tasks(selected_analysts) ==
    SelectSeq(selected_analysts, LAMBDA analyst_type : analyst_type \in AnalystTypes)

\* _execute_single_analyst: the dict it returns, an exception of process()
\* turned into success=False
execute_single_analyst(analyst_type, task, outcome) ==
    [state |-> "done", success |-> outcome = "ok", analyst_type |-> analyst_type,
     report |-> task]

\* _process_single_analyst_result, the reports: analysis_reports[analyst_type]
\* is assigned the report of a successful result
process_single_analyst_result_reports(result, analysis_reports) ==
    IF result.success
    THEN DictSet(analysis_reports, result.analyst_type, result.report)
    ELSE analysis_reports

\* _process_single_analyst_result, the errors: the message of a failed result
\* is appended
process_single_analyst_result_errors(result, errors) ==
    IF result.success THEN errors
    ELSE Append(errors, [analyst_type |-> result.analyst_type, task |-> result.report])

\* the futures of the pool, one per task
FanFutures == 1..Len(fan.tasks)

\* _run_analyst_team_parallel up to the pool: without a task it returns the
\* failure at once
FO_PrepareAnalystTasks ==
    /\ fan.pc = "ready"
    /\ LET tasks == prepare_analyst_tasks(fan.selected_analysts)
       IN fan' = [fan EXCEPT
                    !.pc = IF tasks = <<>> THEN "done" ELSE "fanout",
                    !.tasks = tasks,
                    !.futures = [i \in 1..Len(tasks) |-> [state |-> "pending"]],
                    !.result = IF tasks = <<>> THEN no_analysts_selected ELSE @]
    /\ UNCHANGED <<wfVars, loopVars, debateVars, riskVars, loggerVars, publishVars,
                   batchVars, recorderVars, emitterVars>>

\* a pool thread runs _execute_single_analyst for task i; a successful
\* process() has published its report to the session
FO_ExecuteSingleAnalyst(i) ==
    /\ fan.pc = "fanout"
    /\ fan.futures[i].state = "pending"
    /\ \E outcome \in AnalystOutcomes :
        /\ fan' = [fan EXCEPT !.futures[i] =
                                 execute_single_analyst(fan.tasks[i], i, outcome)]
        /\ current_session' = IF outcome = "ok"
                              THEN add_analysis_report(current_session, fan.tasks[i],
                                                       current_session.symbol)
                              ELSE current_session
    /\ UNCHANGED <<session_history, session_counter, caller, wf, loopVars, debateVars,
                   riskVars, loggerVars, publishVars, batchVars, recorderVars,
                   emitterVars>>

\* as_completed yields future i and _process_single_analyst_result files its
\* result
FO_ProcessSingleAnalystResult(i) ==
    /\ fan.pc = "fanout"
    /\ fan.futures[i].state = "done"
    /\ i \notin fan.collected
    /\ fan' = [fan EXCEPT
                 !.collected = @ \cup {i},
                 !.completed_count = @ + 1,
                 !.analysis_reports =
                     process_single_analyst_result_reports(fan.futures[i], @),
                 !.errors = process_single_analyst_result_errors(fan.futures[i], @)]
    /\ UNCHANGED <<wfVars, loopVars, debateVars, riskVars, loggerVars, publishVars,
                   batchVars, recorderVars, emitterVars>>

\* the pool is left when every future was collected; _process_analyst_results
\* builds the stage's result from the reports and the errors
FO_Join ==
    /\ fan.pc = "fanout"
    /\ fan.collected = FanFutures
    /\ fan' = [fan EXCEPT
                 !.pc = "done",
                 !.result = process_analyst_results(DOMAIN fan.analysis_reports,
                                                    {e.analyst_type : e \in
                                                        {fan.errors[k] :
                                                           k \in DOMAIN fan.errors}})]
    /\ UNCHANGED <<wfVars, loopVars, debateVars, riskVars, loggerVars, publishVars,
                   batchVars, recorderVars, emitterVars>>

\* the analysis stage of a workflow is about to run over a list of analysts
FanoutInit ==
    /\ caller = [kind |-> "direct", selected |-> {}]
    /\ \E s \in Symbols : current_session = start_session(1, s)
    /\ session_counter = 1
    /\ session_history = <<>>
    /\ wf = [s \in Symbols |-> IdleFrame]
    /\ \E selected_analysts \in SelectedLists :
        fan = [pc |-> "ready", selected_analysts |-> selected_analysts,
               tasks |-> <<>>, futures |-> <<>>, collected |-> {},
               completed_count |-> 0, analysis_reports |-> EmptyDict,
               errors |-> <<>>, result |-> NoStageResult]
    /\ loopIdle /\ debateIdle /\ riskIdle /\ loggerIdle /\ publishIdle /\ batchIdle
    /\ recorderIdle /\ emitterIdle

FanoutNext ==
    \/ FO_PrepareAnalystTasks
    \/ \E i \in FanFutures : FO_ExecuteSingleAnalyst(i)
    \/ \E i \in FanFutures : FO_ProcessSingleAnalystResult(i)
    \/ FO_Join

FanoutSpec == FanoutInit /\ [][FanoutNext]_vars

----------------------------------------------------------------------------
(* Properties of the workflow and the state manager *)

IsPrefix(p, q) == Len(p) <= Len(q) /\ \A i \in 1..Len(p) : p[i] = q[i]

\* the stage order the documentation fixes for a mode
StageOrder(quick_mode) ==
    IF quick_mode
    THEN <<"ANALYSIS", "DEBATE", "TRADING">>
    ELSE <<"ANALYSIS", "DEBATE", "TRADING", "RISK_MANAGEMENT", "FINAL_DECISION">>

\* the symbols whose agents published into a session
Publishers(x) ==
    ({x.reports[a] : a \in AnalystTypes}
        \cup {x.research_debate, x.risk_debate, x.trader_decision,
              x.risk_management_decision, x.final_recommendation}) \ {Nil}

\* C1: the stages a call has started are a prefix of the fixed order of its mode,
\* every stage before the last started one has returned success, and once a stage
\* has failed it is the last one started and the call is over.
C1_StagesInOrder ==
    \A s \in Symbols :
        LET f == wf[s] IN
        /\ IsPrefix(f.started, StageOrder(f.quick))
        /\ \A i \in 1..(Len(f.started) - 1) : f.started[i] \in f.succeeded
        /\ f.failed # Nil =>
              /\ f.started # <<>>
              /\ f.started[Len(f.started)] = f.failed
              /\ f.failed \notin f.succeeded
              /\ f.pc = "done"

\* one call ran all five stages of full mode and another stopped at a failed debate
C1_Witness ==
    \E s, u \in Symbols :
        /\ ~wf[s].quick /\ Len(wf[s].started) = 5 /\ wf[s].result.success
        /\ wf[u].failed = DEBATE /\ wf[u].started = <<ANALYSIS, DEBATE>>

\* C4: the step in which a call of execute_trading_workflow returns leaves no
\* active session and leaves the session that call started in the history.
C4_SessionEndedOnReturn ==
    [][\A s \in Symbols :
          (wf[s].pc # "done" /\ wf'[s].pc = "done") =>
              /\ current_session' = NoSession
              /\ wf'[s].session_id \in {session_history'[i].id :
                                            i \in 1..Len(session_history')}]_vars

\* C5: in a batch, while a symbol's workflow runs the active session is the one
\* that workflow started, and every session, active or ended, holds only
\* artifacts published while analysing its own symbol.
C5_OwnSession ==
    caller.kind = "batch" =>
        /\ \A s \in Symbols : Running(s) => current_session.id = wf[s].session_id
        /\ current_session # NoSession => Publishers(current_session) \subseteq {current_session.symbol}
        /\ \A i \in 1..Len(session_history) :
              Publishers(session_history[i]) \subseteq {session_history[i].symbol}

\* C6: once the analysis stage has returned, it succeeded exactly when some
\* selected analyst succeeded, its errors are the analysts that failed, and on
\* success the reports passed forward are those of the analysts that succeeded.
C6_AnalysisStage ==
    \A s \in Symbols :
        LET f == wf[s] IN
        f.analysis.returned =>
            /\ f.analysis.success <=> (f.analyst_ok \cap f.selected # {})
            /\ f.analysis.errors = f.tasks \ f.analyst_ok
            /\ f.analysis.success => f.analysis.reports = f.analyst_ok
            /\ f.analysis.success <=> ANALYSIS \in f.succeeded

\* an analysis stage succeeded although one of its two analysts failed
C6_Witness ==
    \E s \in Symbols :
        /\ wf[s].analysis.returned /\ wf[s].analysis.success
        /\ wf[s].analysis.errors # {} /\ wf[s].analysis.reports # {}
        /\ DEBATE \in wf[s].succeeded

\* C7: in full mode, when an agent of the risk stage failed (a risk analyst, a
\* debate turn or the Risk Manager), the Fund Manager stage is not started and
\* the returned result has success=false.
C7_RiskFailureFailsWorkflow ==
    \A s \in Symbols :
        LET f == wf[s] IN
        (~f.quick /\ f.risk_agent_failed) =>
            /\ FINAL_DECISION \notin {f.started[i] : i \in 1..Len(f.started)}
            /\ f.pc = "done" => ~f.result.success

\* C8: the result of a call in which a stage failed has success=false, an
\* error, and the failed stage in its stage field.
C8_FailureNamesStage ==
    \A s \in Symbols :
        LET f == wf[s] IN
        (f.pc = "done" /\ f.failed # Nil) =>
            /\ ~f.result.success
            /\ f.result.error
            /\ f.result.stage = f.failed

----------------------------------------------------------------------------
(* Properties of the tool-call loop *)

Started == loop.status # "idle"

\* positions of the assistant messages in the transcript
AssistantAt == {i \in 1..Len(loop.messages) : loop.messages[i].role = "assistant"}

\* position of the assistant message of the latest tool-calls response
LastAssistant == CHOOSE i \in AssistantAt : \A j \in AssistantAt : j <= i

\* how many tool calls of the response at position i have been handled
Handled(i) ==
    IF i = LastAssistant
    THEN Len(loop.messages[i].tool_calls) - Len(loop.pending)
    ELSE Len(loop.messages[i].tool_calls)

\* a tool call whose execution fails: an unknown tool or a tool that raises
Fails(tool_call) ==
    tool_call.function \notin {"emit", "get_data"} \/ tool_call.arguments = "invalid"

\* C2: once a response carried a call of the terminal tool, no further LLM call
\* is made: the loop is handling that response's tool calls or has returned, and
\* when it has returned every tool call of that response was answered in the order
\* returned and the value returned is the one the response's last terminal call
\* produced, the emitter's structured value when the emitter accepted its arguments.
C2_ReturnsOnTerminalTool ==
    (Started /\ loop.terminal_at # 0) =>
        /\ loop.llm_calls = loop.terminal_at
        /\ loop.status \in {"running", "returned"}
        /\ loop.status = "running" => loop.pc = "tools"
        /\ loop.status = "returned" =>
             LET i == LastAssistant
                 calls == loop.messages[i].tool_calls
                 terminal == {j \in 1..Len(calls) : calls[j].function = "emit"}
             IN /\ Len(loop.messages) = i + Len(calls)
                /\ \A j \in 1..Len(calls) :
                     /\ loop.messages[i + j].role = "tool"
                     /\ loop.messages[i + j].tool_call_id = calls[j].id
                /\ terminal # {}
                /\ LET last == CHOOSE j \in terminal : \A k \in terminal : k <= j
                   IN /\ calls[last].arguments = "valid" =>
                            loop.retval = [type |-> "dict", text |-> "fields",
                                           tool |-> "emit"]
                      /\ loop.retval.tool = "emit"

\* the second response carried the terminal tool first and another call after
\* it; both were executed and the loop returned the emitter's value
C2_Witness ==
    /\ Started /\ loop.status = "returned" /\ loop.llm_calls = 2
    /\ loop.retval.type = "dict"
    /\ LET calls == loop.messages[LastAssistant].tool_calls
       IN /\ Len(calls) = 2
          /\ calls[1].function = "emit" /\ calls[2].function = "get_data"
          /\ Len(loop.messages) = LastAssistant + 2

\* C3: the loop never makes more than max_iterations LLM calls; it returns only
\* when some response invoked the terminal tool; when none did it ends by raising,
\* and it raises TerminalToolNotCalled only after max_iterations calls; with
\* max_iterations = 1 it returns exactly when the first response carried the
\* terminal tool.
C3_BoundedIterations ==
    Started =>
        /\ loop.llm_calls <= loop.max_iterations
        /\ loop.status = "returned" => (loop.terminal_at # 0 /\ loop.retval # None)
        /\ (loop.status \in {"returned", "raised"} /\ loop.terminal_at = 0) =>
              /\ loop.status = "raised"
              /\ loop.error # "LLMError" => loop.error = "TerminalToolNotCalled"
        /\ (loop.status = "raised" /\ loop.error = "TerminalToolNotCalled") =>
              (loop.terminal_at = 0 /\ loop.llm_calls = loop.max_iterations)
        /\ (loop.status = "running" /\ loop.pc = "llm") => loop.iteration = loop.llm_calls
        /\ (loop.max_iterations = 1 /\ loop.status \in {"returned", "raised"}) =>
              (loop.status = "returned" <=> loop.terminal_at = 1)

\* every allowed LLM call was made, none invoked the terminal tool, and the
\* loop raised
C3_Witness ==
    /\ Started /\ loop.status = "raised" /\ loop.error = "TerminalToolNotCalled"
    /\ loop.max_iterations > 1 /\ loop.llm_calls = loop.max_iterations
    /\ AssistantAt # {}

\* C9: when an execution of the terminal tool failed, the loop does not return
\* the failure text as its result, and the agent's call ends without success and
\* without a published artifact.
C9_EmitterFailureIsFatal ==
    (Started /\ loop.terminal_failed) =>
        /\ loop.status = "returned" => loop.retval.type # "str"
        /\ agent.state = "done" => (~agent.success /\ agent.published = None)

\* C10: every handled tool call has its tool message, in order and with its
\* tool_call_id, carrying the failure text when the tool was unknown or raised;
\* the loop raises only between responses, for an LLM error or for running out
\* of iterations, and after a response it is at the next iteration.
C10_ToolFailureAbsorbed ==
    Started =>
        /\ \A i \in AssistantAt :
             \A j \in 1..Handled(i) :
                LET tool_call == loop.messages[i].tool_calls[j] IN
                /\ i + j <= Len(loop.messages)
                /\ loop.messages[i + j].role = "tool"
                /\ loop.messages[i + j].tool_call_id = tool_call.id
                /\ Fails(tool_call) =>
                      /\ loop.messages[i + j].content.text = "tool_failed"
                      /\ loop.messages[i + j].content.tool = tool_call.function
        /\ loop.status = "raised" =>
              /\ loop.error \in {"TerminalToolNotCalled", "LLMError"}
              /\ loop.pending = <<>>
        /\ (loop.status = "running" /\ loop.pc = "llm") => loop.iteration = loop.llm_calls

\* the first response called an unknown tool and then a tool that raised; both
\* got their failure text and the loop made its second LLM call
C10_Witness ==
    /\ Started /\ loop.llm_calls = 2
    /\ Len(loop.messages) >= 5
    /\ loop.messages[3].role = "assistant"
    /\ Len(loop.messages[3].tool_calls) = 2
    /\ loop.messages[3].tool_calls[1].function = "no_such_tool"
    /\ loop.messages[3].tool_calls[2] =
          [id |-> <<1, 2>>, function |-> "get_data", arguments |-> "invalid"]
    /\ loop.messages[4].content.text = "tool_failed"
    /\ loop.messages[5].content.text = "tool_failed"

\* positions of the tool messages in the transcript
ToolAt == {k \in 1..Len(loop.messages) : loop.messages[k].role = "tool"}

\* C11: every plain-text reply of the LLM is in the transcript as an assistant
\* message, so that the next LLM call is made with the model's own prior reply.
C11_TextReplyAppended ==
    Started =>
        Cardinality({i \in AssistantAt : "tool_calls" \notin DOMAIN loop.messages[i]})
            = loop.text_replies

\* C12: the transcript holds exactly one assistant message per tool-calls
\* response, each carrying the tool_calls array; the messages after it are the
\* tool messages of its calls handled so far, one per call, in the order
\* returned and with the call's tool_call_id, all of them once the response is
\* done; and every tool message belongs to the assistant message before it.
C12_TranscriptShape ==
    Started =>
        /\ Cardinality({i \in AssistantAt : "tool_calls" \in DOMAIN loop.messages[i]})
              = loop.tool_replies
        /\ \A i \in AssistantAt :
              LET calls == loop.messages[i].tool_calls IN
              /\ i + Handled(i) <= Len(loop.messages)
              /\ \A j \in 1..Handled(i) :
                    /\ loop.messages[i + j].role = "tool"
                    /\ loop.messages[i + j].tool_call_id = calls[j].id
              /\ i + Handled(i) < Len(loop.messages) =>
                    loop.messages[i + Handled(i) + 1].role = "assistant"
              /\ (loop.status # "running" \/ loop.pc = "llm") => Handled(i) = Len(calls)
              /\ \A j, k \in 1..Len(calls) : calls[j].id = calls[k].id => j = k
        /\ \A k \in ToolAt :
              \E i \in AssistantAt :
                  /\ i < k /\ k - i <= Len(loop.messages[i].tool_calls)
                  /\ \A m \in (i + 1)..k : loop.messages[m].role = "tool"

\* two tool-calls responses were handled: the first with three calls, the
\* second with none, and the transcript holds their 2 + 3 messages
C12_Witness ==
    /\ Started /\ loop.tool_replies = 2 /\ loop.pc = "llm"
    /\ Len(loop.messages) = 7
    /\ Len(loop.messages[3].tool_calls) = 3
    /\ loop.messages[6].tool_call_id = <<1, 3>>
    /\ loop.messages[7].role = "assistant"

----------------------------------------------------------------------------
(* Properties of sessions and workflow results *)

\* the sessions of a run: the active one and the ended ones
Sessions ==
    {session_history[i] : i \in 1..Len(session_history)}
        \cup (IF current_session = NoSession THEN {} ELSE {current_session})

\* C26: within one session each analysis report slot is written at most once
C26_SlotWrittenOnce ==
    \A session \in Sessions : \A a \in AnalystTypes : session.written[a] <= 1

\* the step in which the workflow of symbol s returns
Returns(s) == wf[s].pc # "done" /\ wf'[s].pc = "done"

\* C27: start_session(sym) followed by end_session() leaves no active session
\* and the ended session appended to the history; checked on the sequential
\* caller, whose workflow starts the session and ends it in its finally clause
C27_StartThenEnd ==
    [][\A s \in Symbols :
          caller.kind = "direct" /\ Returns(s) =>
              /\ current_session.id = wf[s].session_id
              /\ current_session' = NoSession
              /\ \E ended \in {session_history'[i] : i \in 1..Len(session_history')} :
                    /\ ended.id = wf[s].session_id
                    /\ ended.symbol = s
                    /\ session_history' = Append(session_history, ended)]_vars

C27_Witness ==
    /\ caller.kind = "direct"
    /\ \E s \in Symbols :
        /\ wf[s].pc = "done"
        /\ current_session = NoSession
        /\ session_history # <<>>
        /\ session_history[Len(session_history)].id = wf[s].session_id
        /\ session_history[Len(session_history)].symbol = s

\* the ended session of the workflow of symbol s
EndedSession(s) ==
    CHOOSE session \in Sessions : session.id = wf[s].session_id

\* C29: at the end of a workflow each of the session's trading, risk and
\* investment decision slots is populated exactly when the stage producing it
\* ran and succeeded (so in quick mode the last two stay None); checked on the
\* sequential caller, whose workflows never share a session
C29_DecisionSlots ==
    \A s \in Symbols :
        caller.kind = "direct" /\ wf[s].pc = "done" =>
            /\ EndedSession(s).trader_decision # Nil <=> TRADING \in wf[s].succeeded
            /\ EndedSession(s).risk_management_decision # Nil
                  <=> RISK_MANAGEMENT \in wf[s].succeeded
            /\ EndedSession(s).final_recommendation # Nil
                  <=> FINAL_DECISION \in wf[s].succeeded

\* C30: the WorkflowResult of a quick-mode workflow has risk_management = None
\* and no investment decision (fund_manager_result and final_decision None)
C30_QuickResult ==
    \A s \in Symbols :
        wf[s].pc = "done" /\ wf[s].quick =>
            /\ ~wf[s].result.risk_management
            /\ ~wf[s].result.fund_manager_result
            /\ ~wf[s].result.final_decision

C30_Witness ==
    \E s \in Symbols :
        /\ wf[s].pc = "done" /\ wf[s].quick
        /\ wf[s].result.success /\ wf[s].result.mode = "quick"
        /\ wf[s].result.trading_decision

\* C31: when the analyst set passed to the workflow is empty, the analysis stage
\* returns success=False with the error "no analysts selected" and no analyst runs
C31_EmptyAnalystSet ==
    \A s \in Symbols :
        wf[s].pc # "idle" /\ wf[s].passed = {} =>
            /\ wf[s].completed = {}
            /\ wf[s].analysis.returned => wf[s].analysis = no_analysts_selected

\* C38: no started session is dropped: once end_session has run, every session
\* start_session created so far is in session_history, also when start_session
\* was called again while a session was still active
C38_NoSessionDropped ==
    current_session = NoSession =>
        \A id \in 1..session_counter :
            \E i \in 1..Len(session_history) : session_history[i].id = id

----------------------------------------------------------------------------
(* Properties of the research debate *)

\* the research debate state a session holds
HeldResearchDebate == research_debate_state[current_session.research_debate]

\* C13: in every research debate state held by a session the speakers
\* alternate strictly, starting with the Bull: the first, third, ... message is
\* the Bull's, the second, fourth, ... the Bear's
C13_SpeakersAlternate ==
    (current_session # NoSession /\ current_session.research_debate # Nil) =>
        \A i \in 1..Len(HeldResearchDebate.messages) :
            HeldResearchDebate.messages[i].sender = IF i % 2 = 1 THEN "bull" ELSE "bear"

\* the debate got past its last round
RoundsOver(s) ==
    \/ rd[s].pc = "judge"
    \/ rd[s].pc \in {"done", "raised"} /\ rd[s].judge_passes = 1

\* C14: a research debate runs exactly max_rounds rounds; in each round the
\* Bull speaks first, answering the Bear's previous message (the Bear's initial
\* thesis in round 1), then the Bear speaks, answering the Bull's message of
\* that round
C14_RoundsAndOpponents ==
    \A s \in Symbols : rd[s].pc # "idle" =>
        LET debate_history == rd[s].debate_history
        IN /\ \A i \in 1..Len(debate_history) :
                 /\ debate_history[i].round = (i + 1) \div 2
                 /\ debate_history[i].speaker = IF i % 2 = 1 THEN "bull" ELSE "bear"
                 /\ debate_history[i].message =
                        Said(s, debate_history[i].speaker, debate_history[i].round)
                 /\ debate_history[i].opponent_message =
                        IF i = 1 THEN Said(s, "bear", 0)
                        ELSE debate_history[i - 1].message
           /\ Len(debate_history) <= 2 * rd[s].max_rounds
           /\ RoundsOver(s) => Len(debate_history) = 2 * rd[s].max_rounds
           /\ rd[s].pc \in {"bull", "bear"} => Len(debate_history) < 2 * rd[s].max_rounds

\* a debate of two rounds was judged after its four turns
C14_Witness ==
    \E s \in Symbols :
        /\ rd[s].pc = "done" /\ rd[s].success
        /\ rd[s].max_rounds = 2
        /\ Len(rd[s].debate_history) = 4
        /\ rd[s].debate_history[3].opponent_message = Said(s, "bear", 1)

\* the initial research of a debate is over
Researched(s) == rd[s].pc \notin {"idle", "research"}

\* C15: if either researcher's initial process() fails, the research debate
\* ends in failure with no debate turn and no judge pass
C15_InitialResearchFailure ==
    \A s \in Symbols :
        (Researched(s) /\ ~(rd[s].bull_success /\ rd[s].bear_success)) =>
            /\ rd[s].pc = "done" /\ ~rd[s].success
            /\ rd[s].debate_history = <<>>
            /\ rd[s].judge_passes = 0
            /\ ~research_debate_state[s].consensus_reached
            /\ \A u \in Symbols : \A i \in 1..Len(research_debate_state[u].messages) :
                   research_debate_state[u].messages[i].content.by # s

\* a debate ended in failure because only the Bear's initial research failed
C15_Witness ==
    \E s \in Symbols :
        /\ rd[s].pc = "done" /\ ~rd[s].success
        /\ rd[s].bull_success /\ ~rd[s].bear_success
        /\ rd[s].max_rounds > 0

\* summed confidence of the reports recommending rec
RECURSIVE Confidence(_, _, _)
Confidence(reports, keys, rec) ==
    IF keys = {} THEN 0
    ELSE LET k == CHOOSE x \in keys : TRUE
         IN (IF reports[k].recommendation = rec THEN reports[k].confidence_score ELSE 0)
                + Confidence(reports, keys \ {k}, rec)

\* the fallback decision the reports call for
FallbackDecision(reports) ==
    LET buy == Confidence(reports, DOMAIN reports, "BUY")
        sell == Confidence(reports, DOMAIN reports, "SELL")
    IN IF buy > sell THEN "BUY" ELSE IF buy < sell THEN "SELL" ELSE "HOLD"

\* C16: when the judge's tool-call loop fails to produce a judgment, the
\* research debate still concludes, with the fallback decision computed from
\* the analyst reports: BUY if the summed confidence of the BUY reports exceeds
\* that of the SELL reports, SELL if it is lower, HOLD on a tie
C16_FallbackJudgment ==
    \A s \in Symbols :
        (rd[s].pc # "idle" /\ rd[s].judge_passes = 1 /\ rd[s].judge_failed) =>
            /\ rd[s].pc = "done" /\ rd[s].success
            /\ rd[s].decision = FallbackDecision(rd[s].analysis_reports)
            /\ research_debate_state[s].consensus_reached
            /\ research_debate_state[s].final_decision = rd[s].decision

\* C28: for every DebateState, current_round <= max_rounds at all times, and
\* final_decision is not None whenever consensus_reached is true
C28_DebateStateSound ==
    \A s \in Symbols :
        LET state == research_debate_state[s]
        IN rd[s].pc # "idle" =>
              /\ state.current_round <= state.max_rounds
              /\ state.consensus_reached => state.final_decision # Nil

\* C32: with max_rounds = 0 the research debate produces no debate message, and
\* once both initial researches have succeeded the judge pass still runs, once,
\* on the initial theses only (an empty debate history)
C32_ZeroRounds ==
    \A s \in Symbols :
        rd[s].pc # "idle" /\ rd[s].max_rounds = 0 =>
            /\ rd[s].debate_history = <<>>
            /\ research_debate_state[s].messages = <<>>
            /\ rd[s].pc \notin {"research", "judge"}
                  /\ initial_research_ok(rd[s].bull_success, rd[s].bear_success) =>
                      /\ rd[s].judge_passes = 1
                      /\ rd[s].judged_history = <<>>

C32_Witness ==
    \E s \in Symbols :
        /\ rd[s].pc = "done" /\ rd[s].max_rounds = 0
        /\ rd[s].success /\ rd[s].judge_passes = 1
        /\ research_debate_state[s].consensus_reached

----------------------------------------------------------------------------
(* Properties of the risk debate *)

\* the session holds the risk debate state the coordinator handed to it
RiskDebateHeld == current_session # NoSession /\ current_session.risk_debate # Nil

\* C17: the risk DebateState handed to the session for a debate of r rounds
\* has at most 3r messages, and exactly 3r messages in the speaker order
\* Conservative, Aggressive, Neutral, r times over, when the debate completed
\* without early termination
C17_RiskDebateMessages ==
    RiskDebateHeld =>
        LET messages == risk.debate_state.messages
            r == risk.debate_state.max_rounds
        IN /\ Len(messages) <= 3 * r
           /\ ~risk.ended_early =>
                 /\ Len(messages) = 3 * r
                 /\ \A i \in 1..Len(messages) :
                        messages[i].sender = Speakers[((i - 1) % 3) + 1]

\* the debate phase is over: the risk manager is about to evaluate, or has
DebatePhaseOver == risk.pc = "risk_manager" \/ (risk.pc = "done" /\ risk.evaluated)

\* the history is whole rounds of Conservative, Aggressive, Neutral
WholeRounds(debate_history, rounds) ==
    /\ Len(debate_history) = 3 * rounds
    /\ \A i \in 1..Len(debate_history) :
          /\ debate_history[i].speaker = Speakers[((i - 1) % 3) + 1]
          /\ debate_history[i].round = ((i - 1) \div 3) + 1

\* C18 as stated: the risk debate phase runs exactly max_rounds rounds, each
\* proceeding Conservative, Aggressive, Neutral (nine messages when
\* max_rounds = 3)
C18_ExactlyMaxRounds ==
    DebatePhaseOver => WholeRounds(risk.debate_history, risk.max_rounds)

\* C18 amended: the risk debate phase runs whole rounds of Conservative,
\* Aggressive, Neutral, at most max_rounds of them, and exactly max_rounds
\* unless the early termination check ended the debate after a round (nine
\* messages when max_rounds = 3 and the debate was not ended early)
C18_AtMostMaxRounds ==
    /\ risk.pc # "idle" =>
          /\ Len(risk.debate_history) <= 3 * risk.max_rounds
          /\ \A i \in 1..Len(risk.debate_history) :
                /\ risk.debate_history[i].speaker = Speakers[((i - 1) % 3) + 1]
                /\ risk.debate_history[i].round = ((i - 1) \div 3) + 1
    /\ DebatePhaseOver =>
          /\ \E rounds \in 0..risk.max_rounds : WholeRounds(risk.debate_history, rounds)
          /\ ~risk.ended_early => WholeRounds(risk.debate_history, risk.max_rounds)
          /\ risk.ended_early => Len(risk.debate_history) < 3 * risk.max_rounds

\* a debate of three rounds ran its nine turns and was evaluated
C18_Witness ==
    /\ risk.pc = "done" /\ risk.success /\ ~risk.ended_early
    /\ risk.max_rounds = 3
    /\ Len(risk.debate_history) = 9
    /\ risk.debate_history[9].speaker = "neutral"

\* the entries of the Aggressive analyst's turn of round 1
AggressiveRound1 ==
    {i \in 1..Len(risk.debate_history) :
        risk.debate_history[i].speaker = "aggressive" /\ risk.debate_history[i].round = 1}

\* C19: when the Aggressive analyst speaks in round 1 (the history holds one
\* Conservative entry), its opponent arguments are exactly the most recent
\* Conservative message and the Neutral analyst's initial analysis
C19_AggressiveRound1Arguments ==
    risk.pc # "idle" =>
        \A i \in AggressiveRound1 :
            /\ i = 2
            /\ risk.debate_history[i].opponent_args =
                  <<HistoryEntry(risk.debate_history[1]), InitialAnalysis("neutral")>>

\* total length of the contents of some history entries
RECURSIVE ContentLength(_)
ContentLength(entries) ==
    IF entries = <<>> THEN 0
    ELSE entries[Len(entries)].content.len
            + ContentLength(SubSeq(entries, 1, Len(entries) - 1))

\* number of occurrences of a keyword in the contents of some history entries
RECURSIVE KeywordCount(_, _)
KeywordCount(keyword, entries) ==
    IF entries = <<>> THEN 0
    ELSE Cardinality({j \in 1..Len(entries[1].content.pieces) :
                         keyword \in entries[1].content.pieces[j].keywords})
            + KeywordCount(keyword, Tail(entries))

\* the debate phase ended before max_rounds rounds were run
EndedBeforeMaxRounds ==
    DebatePhaseOver /\ Len(risk.debate_history) < 3 * risk.max_rounds

C21_RiskTeamMaxRounds ==
    risk.pc # "idle" =>
        /\ risk.max_rounds = risk.config.risk_team_max_rounds
        /\ risk.debate_state.max_rounds = risk.config.risk_team_max_rounds

\* the risk debate got to the point where its DebateState is handed to the
\* session: nothing raised before
ReachedAttach ==
    /\ risk.pc = "done" /\ risk.evaluated
    /\ risk.risk_manager # "raised" /\ risk.max_rounds > 0

\* C25: every operation that requires the active session (publishing a
\* report, a debate message, a trading or risk decision, attaching a debate
\* state) is a silent no-op when no session is active: it changes nothing and
\* never raises
C25_SessionAbsentNoOp ==
    /\ \A a \in AnalystTypes, s \in Symbols :
          add_analysis_report(NoSession, a, s) = NoSession
    /\ \A s \in Symbols :
          /\ set_trading_decision(NoSession, s) = NoSession
          /\ set_risk_management_decision(NoSession, s) = NoSession
          /\ start_research_debate(NoSession, s) = NoSession
    /\ \A debate_type \in {"research", "risk", "risk_management"} :
          debate_message_field(NoSession, debate_type) = Nil
    /\ (ReachedAttach /\ current_session = NoSession) => risk.success

\* C39: with max_rounds = 0 the risk debate holds no debate turn and still
\* returns success with the Risk Manager's adjudication of the three
\* independent analyses (the risk manager did not raise and a session is
\* active)
C39_ZeroRiskRounds ==
    /\ risk.pc = "done" /\ risk.max_rounds = 0 /\ risk.evaluated
    /\ risk.risk_manager # "raised" /\ current_session # NoSession
    => /\ risk.debate_history = <<>>
       /\ risk.success

----------------------------------------------------------------------------
(* Properties of the call chain log *)

\* the chains written before chain i for the same date and ticker
EarlierInScope(i) ==
    {j \in 1..(i - 1) : /\ llm_chains[j].date = llm_chains[i].date
                        /\ llm_chains[j].ticker = llm_chains[i].ticker}

\* C22: every emitted call chain's sequence number is strictly greater than
\* the number of the previous chain emitted for the same (date, symbol), and
\* the first chain of that scope has number 1
C22_SequenceNumbers ==
    \A i \in 1..Len(llm_chains) :
        /\ EarlierInScope(i) = {} => llm_chains[i].number = 1
        /\ \A j \in EarlierInScope(i) : llm_chains[j].number < llm_chains[i].number

\* every chain so far is of the one session whose analysts run in parallel
OneSession ==
    /\ caller.kind = "direct"
    /\ \A i \in 1..Len(llm_chains) : EarlierInScope(i) = 1..(i - 1)

\* C23: when the parallel analysts of one session emit their call chains at
\* once, each chain gets a distinct number and no number is skipped or used
\* twice: the numbers are 1, 2, 3, ... in the order of emission
C23_ConcurrentSequenceNumbers ==
    OneSession => \A i \in 1..Len(llm_chains) : llm_chains[i].number = i

----------------------------------------------------------------------------
(* Properties of the state manager under parallel analysts *)

\* the workers inside a mutation of the session
Mutating == {t \in Threads : pub[t].pc = "store"}

\* C24: writes to the session by parallel analyst workers are serialized: no
\* two state manager mutations of the session overlap, and a reader of the
\* current session state observes a snapshot, a state the session was in, in
\* which every publish is entirely present or entirely absent
C24_SerializedWrites ==
    /\ Cardinality(Mutating) <= 1
    /\ pub[Reader].pc = "returned" =>
          /\ \A a \in AnalystTypes :
                pub[Reader].analysis_reports[a] \in {Nil, current_session.symbol}
          /\ pub[Reader].analysis_reports \in pub[Reader].states

----------------------------------------------------------------------------
(* Properties of the batch portfolio analyzer *)

\* the workflow call of future i has returned
WorkflowReturned(i) ==
    batch.pc \in {"pool", "returned", "raised"}
        /\ batch.future[i].state \in {"done", "collected"}

\* C33: the market data mapping the caller supplies is never mutated: after
\* execute_trading_workflow has returned it has the keys and values it had
\* before the call
C33_MarketDataNotMutated ==
    \A i \in DOMAIN batch.future :
        WorkflowReturned(i) /\ batch.symbols[i] \in DOMAIN batch.fetched =>
            batch.market_data_dict[batch.symbols[i]] = batch.fetched[batch.symbols[i]]

\* C34: for every list of input symbols analyze_portfolio returns, with
\* |results| + |errors| = |input symbols| and each symbol's future in exactly
\* one of the two, whatever the other symbols' workflows came to
C34_EverySymbolAccounted ==
    /\ batch.pc # "raised"
    /\ batch.pc = "returned" =>
          /\ Len(batch.returned.results) + Len(batch.returned.errors)
                = Len(batch.symbols)
          /\ \A i \in Futures :
                Cardinality({k \in 1..Len(batch.returned.results) :
                                batch.returned.results[k].future = i})
                  + Cardinality({k \in 1..Len(batch.returned.errors) :
                                    batch.returned.errors[k].future = i}) = 1

\* C35: in a batch, a symbol whose market data is missing or carries an error
\* field is reported as an error and not as a success
C35_MissingDataIsError ==
    batch.pc = "returned" /\ batch.include_market_data =>
        \A k \in 1..Len(batch.returned.results) :
            batch.returned.results[k].symbol \in DOMAIN batch.fetched

----------------------------------------------------------------------------
(* Properties of the call chain recorder *)

\* the chains emitted for call c
ChainsOf(c) == {k \in 1..Len(conv.emitted) : conv.emitted[k].call = c}

\* the turns of a chain
TurnsOf(chain) == {chain.llm_calls[i] : i \in 1..Len(chain.llm_calls)}

\* no turn appears in two chains, and a call in progress has recorded its own
\* turns only
NoTurnTwice ==
    /\ \A k1, k2 \in 1..Len(conv.emitted) :
          k1 # k2 => TurnsOf(conv.emitted[k1]) \cap TurnsOf(conv.emitted[k2]) = {}
    /\ conv.pc = "process" => conv.llm_call_chain = conv.calls[CurrentCall].turns

----------------------------------------------------------------------------
(* Properties of the emitters *)

\* C37: every recommendation published in an artifact is one of BUY, HOLD and
\* SELL, and every published confidence and position size lies in [0, 1] (0..10
\* in tenths), whatever values the LLM passes to the emitter
C37_PublishedRanges ==
    emission.pc = "done" /\ emission.success =>
        /\ emission.published.recommendation \in {"BUY", "HOLD", "SELL"}
        /\ emission.published.confidence_score \in 0..10
        /\ emission.agent # "technical_analyst" =>
              emission.published.position_size \in 0..10

----------------------------------------------------------------------------
(* Properties of the analyst fan-out *)

\* the reports of the stage that came from task i
ReportOf(i) ==
    {k \in DOMAIN fan.analysis_reports : fan.analysis_reports[k] = i}

\* the errors of the stage that came from task i
ErrorsOf(i) ==
    {k \in DOMAIN fan.errors : fan.errors[k].task = i}

\* C40: after the analyst fan-out joins, every prepared analyst task is
\* accounted for exactly once: its report is in the stage's reports or its
\* error is in the stage's errors, so |reports| + |errors| = |tasks|
C40_EveryTaskAccounted ==
    fan.pc = "done" /\ fan.tasks # <<>> =>
        /\ \A i \in FanFutures :
              Cardinality(ReportOf(i)) + Cardinality(ErrorsOf(i)) = 1
        /\ Cardinality(DOMAIN fan.analysis_reports) + Len(fan.errors)
               = Len(fan.tasks)

====
